---------------------------- MODULE Spec2Model ----------------------------
(***************************************************************************)
(* A model of the IMAP storage backend (package imap): the message         *)
(* descriptor and its canonical maildir name, the path resolver, the       *)
(* mail client over an IMAP server, and the Fs / Object operations.        *)
(*                                                                         *)
(* Strings are sequences of one-character strings, so that the regular     *)
(* expressions, path.Join / path.Base / path.Dir and strings.Trim are      *)
(* computed character by character as the Go code computes them.           *)
(* An int64 read from or printed into a name is a numeral: its sequence of *)
(* decimal digits without leading zeros (<<0>> for zero), which has no     *)
(* upper limit; the range checks of strconv.ParseInt are made on it.       *)
(***************************************************************************)
EXTENDS Integers, Sequences, FiniteSets, TLC

\* ------------------------------------------------------------------
\* Strings
\* ------------------------------------------------------------------

Digits == <<"0", "1", "2", "3", "4", "5", "6", "7", "8", "9">>

DigitSet == {"0", "1", "2", "3", "4", "5", "6", "7", "8", "9"}

DigitVal(c) ==
    CASE c = "0" -> 0 [] c = "1" -> 1 [] c = "2" -> 2 [] c = "3" -> 3
      [] c = "4" -> 4 [] c = "5" -> 5 [] c = "6" -> 6 [] c = "7" -> 7
      [] c = "8" -> 8 [] c = "9" -> 9

DigitChar(n) == Digits[n + 1]

\* s[i..j], empty when j < i
Sub(s, i, j) == IF j < i THEN <<>> ELSE SubSeq(s, i, j)

\* the index of the last character of the longest run, starting at i, of
\* characters that are in set (member) or not in set (~member); i - 1 when
\* s[i] is not such a character
RECURSIVE RunEnd(_, _, _, _)
RunEnd(s, i, set, member) ==
    IF i <= Len(s) /\ ((s[i] \in set) = member)
    THEN RunEnd(s, i + 1, set, member)
    ELSE i - 1

\* s holds the literal lit at index i
HasAt(s, i, lit) ==
    /\ i >= 1
    /\ i + Len(lit) - 1 <= Len(s)
    /\ \A k \in 1..Len(lit) : s[i + k - 1] = lit[k]

HasPrefix(s, p) == HasAt(s, 1, p)

TrimPrefix(s, p) == IF HasPrefix(s, p) THEN Sub(s, Len(p) + 1, Len(s)) ELSE s

\* the first index from k on where s holds c, Len(s) + 1 when there is none
RECURSIVE IndexFrom(_, _, _)
IndexFrom(s, c, k) ==
    IF k > Len(s) THEN Len(s) + 1
    ELSE IF s[k] = c THEN k
    ELSE IndexFrom(s, c, k + 1)

\* the last index up to k where s holds c, 0 when there is none
RECURSIVE LastIndexTo(_, _, _)
LastIndexTo(s, c, k) ==
    IF k < 1 THEN 0
    ELSE IF s[k] = c THEN k
    ELSE LastIndexTo(s, c, k - 1)

RECURSIVE TrimLeftSlash(_)
TrimLeftSlash(s) ==
    IF s # <<>> /\ s[1] = "/" THEN TrimLeftSlash(Tail(s)) ELSE s

RECURSIVE StripTrailingSlashes(_)
StripTrailingSlashes(p) ==
    IF p # <<>> /\ p[Len(p)] = "/"
    THEN StripTrailingSlashes(Sub(p, 1, Len(p) - 1)) ELSE p

\* strings.Trim(s, "/")
TrimSlash(s) == StripTrailingSlashes(TrimLeftSlash(s))

\* strings.ReplaceAll(s, old, new) for a one-character old and a new of
\* at most one character (new = <<>> deletes)
RECURSIVE ReplaceAll(_, _, _)
ReplaceAll(s, old, new) ==
    IF s = <<>> THEN <<>>
    ELSE (IF s[1] = old THEN new ELSE <<s[1]>>) \o ReplaceAll(Tail(s), old, new)

\* the index of the last "/" of s, 0 when there is none
LastSlash(s) == LastIndexTo(s, "/", Len(s))

\* s split at every "/"
RECURSIVE SplitSlash(_)
SplitSlash(s) ==
    LET k == IndexFrom(s, "/", 1)
    IN  IF k > Len(s) THEN <<s>>
        ELSE <<Sub(s, 1, k - 1)>> \o SplitSlash(Sub(s, k + 1, Len(s)))

RECURSIVE JoinSlash(_)
JoinSlash(segs) ==
    IF segs = <<>> THEN <<>>
    ELSE IF Len(segs) = 1 THEN segs[1]
    ELSE segs[1] \o <<"/">> \o JoinSlash(Tail(segs))

\* the segments of a path after path.Clean's rules: empty and "." segments
\* dropped, ".." removing the segment before it (kept at the start of a
\* path that is not rooted, dropped at the start of a rooted one)
RECURSIVE CleanSegs(_, _, _)
CleanSegs(segs, acc, rooted) ==
    IF segs = <<>> THEN acc
    ELSE LET h == segs[1]
             t == Tail(segs)
         IN  IF h = <<>> \/ h = <<".">> THEN CleanSegs(t, acc, rooted)
             ELSE IF h = <<".", ".">>
                  THEN IF acc # <<>> /\ acc[Len(acc)] # <<".", ".">>
                       THEN CleanSegs(t, Sub(acc, 1, Len(acc) - 1), rooted)
                       ELSE IF rooted THEN CleanSegs(t, acc, rooted)
                       ELSE CleanSegs(t, Append(acc, h), rooted)
             ELSE CleanSegs(t, Append(acc, h), rooted)

\* path.Clean of a non-empty path, from its cleaned segments joined by "/"
CleanResult(rooted, body) ==
    IF rooted THEN <<"/">> \o body
    ELSE IF body = <<>> THEN <<".">> ELSE body

\* path.Clean
PathClean(p) ==
    IF p = <<>> THEN <<".">>
    ELSE CleanResult(p[1] = "/",
                     JoinSlash(CleanSegs(SplitSlash(p), <<>>, p[1] = "/")))

\* path.Join(a, b): the non-empty elements joined by "/" and cleaned
PathJoin(a, b) ==
    IF a = <<>> /\ b = <<>> THEN <<>>
    ELSE PathClean(IF a = <<>> THEN b
                   ELSE IF b = <<>> THEN a
                   ELSE a \o <<"/">> \o b)

\* path.Dir
PathDir(p) == PathClean(Sub(p, 1, LastSlash(p)))

\* what follows the last "/" of a path without trailing slashes
LastElement(q) ==
    IF LastSlash(q) = Len(q) THEN <<"/">> ELSE Sub(q, LastSlash(q) + 1, Len(q))

\* path.Base
PathBase(p) ==
    IF p = <<>> THEN <<".">> ELSE LastElement(StripTrailingSlashes(p))

\* ------------------------------------------------------------------
\* Numerals: the int64 values of names
\* ------------------------------------------------------------------

RECURSIVE StripZeros(_)
StripZeros(ds) ==
    IF Len(ds) > 1 /\ ds[1] = 0 THEN StripZeros(Tail(ds)) ELSE ds

\* a < b or a = b, for numerals
NumLeq(a, b) ==
    \/ Len(a) < Len(b)
    \/ /\ Len(a) = Len(b)
       /\ \/ a = b
          \/ \E k \in 1..Len(a) :
                /\ a[k] < b[k]
                /\ \A m \in 1..(k - 1) : a[m] = b[m]

MaxInt32 == <<2, 1, 4, 7, 4, 8, 3, 6, 4, 7>>

MaxInt64 == <<9, 2, 2, 3, 3, 7, 2, 0, 3, 6, 8, 5, 4, 7, 7, 5, 8, 0, 7>>

\* fmt.Sprintf("%d", n) of a numeral
FormatInt(n) == [k \in 1..Len(n) |-> DigitChar(n[k])]

\* the numeral of a natural number that TLC can hold
RECURSIVE ItoN(_)
ItoN(i) == IF i < 10 THEN <<i>> ELSE Append(ItoN(i \div 10), i % 10)

\* the natural number of a numeral (of at most 9 digits)
RECURSIVE NtoI(_)
NtoI(n) ==
    IF Len(n) = 1 THEN n[1]
    ELSE 10 * NtoI(Sub(n, 1, Len(n) - 1)) + n[Len(n)]


\* ------------------------------------------------------------------
\* Descriptor
\* ------------------------------------------------------------------

imapHost == <<"i", "m", "a", "p", ".", "r", "c", "l", "o", "n", "e", ".", "o", "r", "g">>

SeenFlag == "Seen"
AnsweredFlag == "Answered"
DeletedFlag == "Deleted"
DraftFlag == "Draft"
FlaggedFlag == "Flagged"

errorInvalidFileName == "invalid file name"
errorInvalidMessage == "invalid IMAP message"
errorReadingMessage == "failed to read message"

NoMatch == [ok |-> FALSE]

\* messageNameRegEx matched with its first character at index i:
\*   (\d+)\.R([^\.]+)\.([^,]+),S\=(\d+)-2,(.*)
\* Every group is followed by a character it excludes, so the greedy groups
\* have one way to match from a given start. d2, c2, h2 and z2 are the
\* indexes of the last character of the date, checksum, host and size groups.
MatchSize(s, i, d2, c2, h2, z2) ==
    IF z2 >= h2 + 4 /\ HasAt(s, z2 + 1, <<"-", "2", ",">>)
    THEN [ok |-> TRUE, start |-> i,
          date |-> Sub(s, i, d2), sum |-> Sub(s, d2 + 3, c2),
          host |-> Sub(s, c2 + 2, h2), size |-> Sub(s, h2 + 4, z2),
          tail |-> Sub(s, z2 + 4, Len(s))]
    ELSE NoMatch

MatchHost(s, i, d2, c2, h2) ==
    IF h2 >= c2 + 2 /\ HasAt(s, h2 + 1, <<",", "S", "=">>)
    THEN MatchSize(s, i, d2, c2, h2, RunEnd(s, h2 + 4, DigitSet, TRUE))
    ELSE NoMatch

MatchSum(s, i, d2, c2) ==
    IF c2 >= d2 + 3 /\ HasAt(s, c2 + 1, <<".">>)
    THEN MatchHost(s, i, d2, c2, RunEnd(s, c2 + 2, {","}, FALSE))
    ELSE NoMatch

MatchDate(s, i, d2) ==
    IF d2 >= i /\ HasAt(s, d2 + 1, <<".", "R">>)
    THEN MatchSum(s, i, d2, RunEnd(s, d2 + 3, {"."}, FALSE))
    ELSE NoMatch

MatchNameAt(s, i) == MatchDate(s, i, RunEnd(s, i, DigitSet, TRUE))

\* the leftmost match from index i on: the pattern is not anchored
RECURSIVE FindNameFrom(_, _)
FindNameFrom(s, i) ==
    IF i > Len(s) THEN NoMatch
    ELSE LET m == MatchNameAt(s, i)
         IN  IF m.ok THEN m ELSE FindNameFrom(s, i + 1)

\* messageNameRegEx.FindStringSubmatch(s)
messageNameRegEx(s) == FindNameFrom(s, 1)

\* strconv.ParseInt(s, 10, bitSize) of a string of digits; max is the
\* largest value of the bit size
ParseInt(s, max) ==
    LET n == StripZeros([k \in 1..Len(s) |-> DigitVal(s[k])])
    IN  IF NumLeq(n, max) THEN [ok |-> TRUE, val |-> n] ELSE [ok |-> FALSE]

\* the flag letters of a name, in the order the code appends them
FlagLetters(flags) ==
    (IF SeenFlag \in flags THEN <<"S">> ELSE <<>>)
    \o (IF AnsweredFlag \in flags THEN <<"A">> ELSE <<>>)
    \o (IF DeletedFlag \in flags THEN <<"T">> ELSE <<>>)
    \o (IF DraftFlag \in flags THEN <<"D">> ELSE <<>>)
    \o (IF FlaggedFlag \in flags THEN <<"F">> ELSE <<>>)

Contains(s, c) == IndexFrom(s, c, 1) <= Len(s)

\* the flags named by the letters after the last comma of a name
FlagsOfLetters(tail) ==
    (IF Contains(tail, "S") THEN {SeenFlag} ELSE {})
    \cup (IF Contains(tail, "A") THEN {AnsweredFlag} ELSE {})
    \cup (IF Contains(tail, "T") THEN {DeletedFlag} ELSE {})
    \cup (IF Contains(tail, "D") THEN {DraftFlag} ELSE {})
    \cup (IF Contains(tail, "F") THEN {FlaggedFlag} ELSE {})

\* fmt.Sprintf("%d.R%s.%s,S=%d-2,", sec, checksum, imapHost, size)
SprintfName(sec, checksum, size) ==
    FormatInt(sec) \o <<".", "R">> \o checksum \o <<".">> \o imapHost
    \o <<",", "S", "=">> \o FormatInt(size) \o <<"-", "2", ",">>

\* a time.Time in UTC: seconds since the epoch (a numeral) and nanoseconds
Time(sec, nsec) == [sec |-> sec, nsec |-> nsec]

\* Time.UTC: the same instant with the location set to UTC; the seconds and
\* the nanoseconds are kept
UTC(t) == [sec |-> t.sec, nsec |-> t.nsec]

newDescriptor(parent, name, date, checksum, size, flags) ==
    [parent |-> parent,
     name |-> IF name = <<>>
              THEN SprintfName(UTC(date).sec, checksum, size) \o FlagLetters(flags)
              ELSE name,
     date |-> UTC(date), md5sum |-> checksum, size |-> size, flags |-> flags]

Failed(e) == [err |-> e]

Ok(info) == [err |-> "", info |-> info]

\* nameToDescriptor, from the parsed date and size of a matching name
DescriptorOfFields(parent, name, matches, i, size) ==
    IF ~i.ok THEN Failed(errorInvalidFileName)
    ELSE IF ~size.ok THEN Failed(errorInvalidFileName)
    ELSE Ok(newDescriptor(parent, name, Time(i.val, 0), matches.sum,
                          size.val, FlagsOfLetters(matches.tail)))

\* nameToDescriptor, from the match of the name's last element: the date is
\* parsed with 64 bits and the size with 32
DescriptorOfMatch(parent, name, matches) ==
    IF ~matches.ok THEN Failed(errorInvalidFileName)
    ELSE DescriptorOfFields(parent, name, matches,
                            ParseInt(matches.date, MaxInt64),
                            ParseInt(matches.size, MaxInt32))

nameToDescriptor(parent, name) ==
    DescriptorOfMatch(parent, name, messageNameRegEx(PathBase(name)))

Equal(i, o) == i.date = o.date /\ i.md5sum = o.md5sum /\ i.size = o.size

MaildirName(i, flags) ==
    SprintfName(i.date.sec, i.md5sum, i.size)
    \o (IF flags THEN FlagLetters(i.flags) ELSE <<>>)

\* descriptor.Matches, from the parsed date and size of a matching name
MatchesFields(i, matches, idate, size) ==
    IF ~idate.ok THEN FALSE
    ELSE IF ~size.ok THEN FALSE
    ELSE /\ i.date = Time(idate.val, 0)
         /\ i.md5sum = matches.sum
         /\ i.size = size.val

\* descriptor.Matches, from the match of the name's last element: the date
\* and the size are both parsed with 64 bits
MatchesOfMatch(i, matches) ==
    IF ~matches.ok THEN FALSE
    ELSE MatchesFields(i, matches, ParseInt(matches.date, MaxInt64),
                       ParseInt(matches.size, MaxInt64))

Matches(i, name) == MatchesOfMatch(i, messageNameRegEx(PathBase(name)))

\* ------------------------------------------------------------------
\* Time: the calendar of time.Time.AddDate and of the IMAP date keys
\* ------------------------------------------------------------------

SecondsPerDay == 86400

\* the day number (days since 1970-01-01) of a civil date
DaysFromCivil(y0, m, d) ==
    LET y == IF m <= 2 THEN y0 - 1 ELSE y0
        era == y \div 400
        yoe == y - era * 400
        mp == IF m > 2 THEN m - 3 ELSE m + 9
        doy == (153 * mp + 2) \div 5 + d - 1
        doe == yoe * 365 + yoe \div 4 - yoe \div 100 + doy
    IN  era * 146097 + doe - 719468

\* the civil date of a day number, in steps: the month of the year that
\* starts in March, the day of that year, the year of the 400-year era,
\* the day of the era
CivilOfMonth(era, yoe, doy, mp) ==
    [y |-> yoe + era * 400 + (IF mp >= 10 THEN 1 ELSE 0),
     m |-> IF mp < 10 THEN mp + 3 ELSE mp - 9,
     d |-> doy - (153 * mp + 2) \div 5 + 1]

CivilOfDoy(era, yoe, doy) == CivilOfMonth(era, yoe, doy, (5 * doy + 2) \div 153)

CivilOfYoe(era, doe, yoe) ==
    CivilOfDoy(era, yoe, doe - (365 * yoe + yoe \div 4 - yoe \div 100))

CivilOfDoe(era, doe) ==
    CivilOfYoe(era, doe,
               (doe - doe \div 1460 + doe \div 36524 - doe \div 146096) \div 365)

CivilFromDays(days) ==
    CivilOfDoe((days + 719468) \div 146097, (days + 719468) % 146097)

\* the time of day kept, the day of the month c.d counted from the first
\* of the month that lies mm months after January of the year c.y
AddMonthsCivil(sec, c, mm) ==
    (DaysFromCivil(c.y + mm \div 12, (mm % 12) + 1, 1) + c.d - 1) * SecondsPerDay
    + (sec % SecondsPerDay)

AddMonthsFrom(sec, months, c) == AddMonthsCivil(sec, c, (c.m - 1) + months)

\* t.AddDate(0, months, 0) of a time given in seconds since the epoch:
\* the month is moved and a day past the end of the new month runs over
\* into the next one, as time.Date normalises it
AddMonths(sec, months) ==
    AddMonthsFrom(sec, months, CivilFromDays(sec \div SecondsPerDay))

\* ------------------------------------------------------------------
\* uint32 values, held as two 16-bit halves
\* ------------------------------------------------------------------

Half == 65536

\* uint32(x) of an int64 x: x modulo 2^32
U32(x) == [hi |-> (x \div Half) % Half, lo |-> x % Half]

U32Less(a, b) == a.hi < b.hi \/ (a.hi = b.hi /\ a.lo < b.lo)

U32Zero == [hi |-> 0, lo |-> 0]

\* ------------------------------------------------------------------
\* Message content
\* ------------------------------------------------------------------

\* the contents the model uploads are two mail messages, "mail60" and
\* "hello", and one content that is no mail message, "junk"

\* the MD5 digest of a content, as a lowercase hex string
MD5(body) ==
    CASE body = "mail60" -> <<"a", "1">>
      [] body = "hello" -> <<"5", "d">>
      [] OTHER -> <<"e", "e">>

\* the length of a content in bytes
BodySize(body) ==
    CASE body = "mail60" -> 60
      [] body = "hello" -> 5
      [] OTHER -> 10

\* mail.ReadMessage(reader) succeeds
isMessage(body) == body # "junk"

\* ------------------------------------------------------------------
\* The IMAP server
\* ------------------------------------------------------------------

\* the hierarchy delimiter the server reports with every mailbox
Delimiter == "."

\* the messages of the selected mailbox
Select(srv, mailbox) == mailbox \in DOMAIN srv

\* a mailbox name the server accepts in CREATE: no empty hierarchy level
ValidMailboxName(mailbox) ==
    /\ mailbox # <<>>
    /\ mailbox[1] # Delimiter
    /\ mailbox[Len(mailbox)] # Delimiter
    /\ \A k \in 1..(Len(mailbox) - 1) :
          ~(mailbox[k] = Delimiter /\ mailbox[k + 1] = Delimiter)

\* CREATE mailbox
ServerCreate(srv, mailbox) ==
    IF mailbox \in DOMAIN srv \/ ~ValidMailboxName(mailbox)
    THEN [ok |-> FALSE, srv |-> srv]
    ELSE [ok |-> TRUE,
          srv |-> [n \in DOMAIN srv \cup {mailbox} |->
                      IF n = mailbox THEN <<>> ELSE srv[n]]]

\* APPEND mailbox flags date literal: the internal date has seconds only
ServerAppend(srv, mailbox, flags, sec, body, size) ==
    IF mailbox \notin DOMAIN srv
    THEN [ok |-> FALSE, srv |-> srv]
    ELSE [ok |-> TRUE,
          srv |-> [srv EXCEPT ![mailbox] =
                      Append(@, [date |-> sec, body |-> body,
                                 size |-> size, flags |-> flags])]]

\* SEARCH in the selected mailbox: SINCE and BEFORE compare calendar days,
\* LARGER and SMALLER are strict; a key with a zero value is not sent
ServerSearch(srv, mailbox, criteria) ==
    {k \in 1..Len(srv[mailbox]) :
        LET msg == srv[mailbox][k]
            day == msg.date \div SecondsPerDay
        IN  /\ day >= criteria.Since \div SecondsPerDay
            /\ day < criteria.Before \div SecondsPerDay
            /\ criteria.Larger = U32Zero \/ U32Less(criteria.Larger, U32(msg.size))
            /\ criteria.Smaller = U32Zero \/ U32Less(U32(msg.size), criteria.Smaller)}

\* STORE seqNum +FLAGS.SILENT flags in the selected mailbox
ServerStore(srv, mailbox, seqNum, flags) ==
    IF seqNum \notin 1..Len(srv[mailbox])
    THEN [ok |-> FALSE, srv |-> srv]
    ELSE [ok |-> TRUE,
          srv |-> [srv EXCEPT ![mailbox][seqNum].flags = @ \cup flags]]

\* the messages of a sequence that do not carry the Deleted flag
RECURSIVE Undeleted(_)
Undeleted(msgs) ==
    IF msgs = <<>> THEN <<>>
    ELSE (IF DeletedFlag \in msgs[1].flags THEN <<>> ELSE <<msgs[1]>>)
         \o Undeleted(Tail(msgs))

\* EXPUNGE in the selected mailbox
ServerExpunge(srv, mailbox) == [srv EXCEPT ![mailbox] = Undeleted(@)]

\* the number of messages the server holds
RECURSIVE TotalOver(_, _)
TotalOver(srv, names) ==
    IF names = {} THEN 0
    ELSE LET n == CHOOSE n \in names : TRUE
         IN  Len(srv[n]) + TotalOver(srv, names \ {n})

TotalMessages(srv) == TotalOver(srv, DOMAIN srv)


\* ------------------------------------------------------------------
\* mailclient
\* ------------------------------------------------------------------

\* newMailClient after a successful login: the connection, and the
\* delimiter and folder names that RefreshMailboxes read from LIST "" "*"
\* (the delimiter stays empty when the server lists no mailbox)
newMailClient(srv) ==
    [conn |-> TRUE,
     delimiter |-> IF DOMAIN srv = {} THEN <<>> ELSE <<Delimiter>>,
     mailboxes |-> DOMAIN srv]

dirToMailbox(m, dir) == ReplaceAll(TrimSlash(dir), "/", m.delimiter)

\* strings.ReplaceAll(s, "", "/"): a "/" before every character and at the end
RECURSIVE SlashAround(_)
SlashAround(s) ==
    IF s = <<>> THEN <<"/">> ELSE <<"/", s[1]>> \o SlashAround(Tail(s))

mailboxToDir(m, mailbox) ==
    IF m.delimiter = <<>> THEN SlashAround(mailbox)
    ELSE ReplaceAll(mailbox, m.delimiter[1], <<"/">>)

HasMailbox(m, dir) ==
    /\ m.conn
    /\ \E curr \in m.mailboxes : dirToMailbox(m, dir) = curr

RECURSIVE reverse(_)
reverse(input) ==
    IF input = <<>> THEN <<>> ELSE Append(reverse(Tail(input)), input[1])

\* path.Split
PathSplit(p) ==
    [dir |-> Sub(p, 1, LastSlash(p)), file |-> Sub(p, LastSlash(p) + 1, Len(p))]

\* topDir, from the split of the reversed path
topDirOfSplit(sp) == <<TrimSlash(reverse(sp.file)), TrimSlash(reverse(sp.dir))>>

\* topDir: the first segment of a path, and what follows it
topDir(input) == topDirOfSplit(PathSplit(reverse(input)))

\* removeRoot, of a trimmed root and a trimmed element
removeTrimmedRoot(root, element) ==
    IF root = <<>> THEN element
    ELSE IF root = element THEN <<>>
    ELSE IF HasPrefix(element, root \o <<"/">>)
         THEN TrimPrefix(element, root \o <<"/">>)
    ELSE element

removeRoot(root0, element0) == removeTrimmedRoot(TrimSlash(root0), TrimSlash(element0))

\* matchValue with a fault: at the root it takes the whole element, nested
\* levels included, where the code takes its top directory
matchValueWholeElement(root, element) ==
    IF root = <<>> THEN element
    ELSE IF HasPrefix(element, root \o <<"/">>)
         THEN topDir(TrimPrefix(element, root \o <<"/">>))[1]
    ELSE <<>>

\* the value getMatches derives from one trimmed element of the list: the
\* top directory of the element under the trimmed root, "" when the element
\* is not under the root
matchValue(root, element) ==
    IF root = <<>> THEN topDir(element)[1]
    ELSE IF HasPrefix(element, root \o <<"/">>)
         THEN topDir(TrimPrefix(element, root \o <<"/">>))[1]
    ELSE <<>>

\* getMatches: the result without its order (each value once)
getMatches(root0, list) ==
    {matchValue(TrimSlash(root0), TrimSlash(e)) : e \in list} \ {<<>>}

ListMailboxes(m, dir) == getMatches(dir, {mailboxToDir(m, curr) : curr \in m.mailboxes})

\* searchCriteriaFromDescriptor: the date window of one month each way and
\* the size window of 50 bytes each way, the sizes converted to uint32
searchCriteriaOf(sec, size) ==
    [Since |-> AddMonths(sec, -1),
     Before |-> AddMonths(sec, 1),
     Larger |-> U32(size - 50),
     Smaller |-> U32(size + 50)]

searchCriteriaFromDescriptor(info) ==
    searchCriteriaOf(NtoI(info.date.sec), NtoI(info.size))

criteriaOfDescriptor(r) ==
    IF r.err # "" THEN [err |-> r.err]
    ELSE [err |-> "", criteria |-> searchCriteriaFromDescriptor(r.info)]

searchCriteriaFromName(parent, name) ==
    criteriaOfDescriptor(nameToDescriptor(parent, name))

\* regexToMap(remoteRegex, str):
\*   (?:(?P<parent>.*)\/)?(?P<file>\d+\.R[^\.]+\.[^,]+,S\=\d+-2,.*)|(?P<dir>.*)
\* The match starts at the first character. The first alternative is
\* preferred, with the longest parent for which the file pattern matches
\* right after a "/", then with no parent; else the whole string is dir.
RECURSIVE FileAfterSlash(_, _)
FileAfterSlash(str, k) ==
    IF LastIndexTo(str, "/", k) = 0 THEN 0
    ELSE IF MatchNameAt(str, LastIndexTo(str, "/", k) + 1).ok
         THEN LastIndexTo(str, "/", k) + 1
    ELSE FileAfterSlash(str, LastIndexTo(str, "/", k) - 1)

\* the groups, k being the index where the file starts after a "/" (0: none)
remoteGroups(str, k) ==
    IF k # 0
    THEN [parent |-> Sub(str, 1, k - 2), file |-> Sub(str, k, Len(str)),
          dir |-> <<>>]
    ELSE IF MatchNameAt(str, 1).ok
         THEN [parent |-> <<>>, file |-> str, dir |-> <<>>]
    ELSE [parent |-> <<>>, file |-> <<>>, dir |-> str]

remoteRegex(str) == remoteGroups(str, FileAfterSlash(str, Len(str)))

\* messageToDescriptor of a fetched message; hasBody is false when the
\* response carries no body section to read
messageToDescriptor(parent, name, msg, hasBody) ==
    IF ~hasBody THEN Failed(errorReadingMessage)
    ELSE Ok(newDescriptor(parent, name, Time(ItoN(msg.date), 0), MD5(msg.body),
                          ItoN(msg.size), msg.flags))

\* objectToDescriptor, byName being the descriptor of the object's name
objectOrName(parent, o, byName) ==
    IF byName.err = "" THEN byName
    ELSE IF ~isMessage(o.body) THEN Failed(errorInvalidMessage)
    ELSE Ok(newDescriptor(parent, o.remote, o.modTime, MD5(o.body),
                          ItoN(BodySize(o.body)), {}))

\* objectToDescriptor of a source object o = [remote, modTime, body]
objectToDescriptor(parent, o) ==
    objectOrName(parent, o, nameToDescriptor(parent, o.remote))

readerToDescriptor(parent, name, date, body, isSeeker, size, flags) ==
    IF ~isSeeker THEN Failed(errorReadingMessage)
    ELSE IF ~isMessage(body) THEN Failed(errorInvalidMessage)
    ELSE Ok(newDescriptor(parent, name, date, MD5(body), size, flags))

\* ------------------------------------------------------------------
\* Fs and Object
\* ------------------------------------------------------------------

ErrorDirNotFound == "directory not found"
ErrorObjectNotFound == "object not found"
ErrorDial == "failed to dial IMAP server"

Object(root, seqNum, info) ==
    [kind |-> "object", root |-> root, seqNum |-> seqNum, info |-> info]

Dir(remote) == [kind |-> "dir", remote |-> remote]

\* Object.Remote, name being the parent joined with the message name
RemoteOf(o, name) ==
    IF name = o.root THEN PathBase(o.info.name)
    ELSE removeRoot(o.root, name)

\* Object.Remote
Remote(o) == RemoteOf(o, PathJoin(o.info.parent, o.info.name))

\* mailclient.Search, mbox being the server's name of the mailbox
SearchIn(srv, mbox, criteria) ==
    IF ~Select(srv, mbox) THEN [err |-> ErrorDirNotFound]
    ELSE IF Len(srv[mbox]) = 0 THEN [err |-> "", ids |-> {}]
    ELSE [err |-> "", ids |-> ServerSearch(srv, mbox, criteria)]

\* the fetch callback of fetchEntries on the messages with the sequence
\* numbers ids: a message whose conversion fails is logged and left out, a
\* message that does not match a file that was asked for is left out
fetchedObjects(srv, root, noBody, parent, file, mbox, ids) ==
    {Object(root, k, messageToDescriptor(parent, <<>>, srv[mbox][k], TRUE).info) :
        k \in {j \in ids :
                 /\ messageToDescriptor(parent, <<>>, srv[mbox][j], j # noBody).err = ""
                 /\ \/ file = <<>>
                    \/ Matches(messageToDescriptor(parent, <<>>, srv[mbox][j], TRUE).info,
                               file)}}

\* fetchEntries from the search result on
fetchFound(srv, root, noBody, parent, file, mbox, dirs, found) ==
    IF found.err # "" THEN [err |-> found.err]
    ELSE IF found.ids = {} THEN [err |-> "", entries |-> dirs]
    ELSE [err |-> "",
          entries |-> dirs \cup fetchedObjects(srv, root, noBody, parent, file,
                                               mbox, found.ids)]

\* fetchEntries from the listing of the child mailboxes on
fetchListed(srv, root, noBody, parent, file, mbox, crit, dirs) ==
    IF parent = <<>> /\ file = <<>> THEN [err |-> "", entries |-> dirs]
    ELSE IF Len(srv[mbox]) = 0 THEN [err |-> "", entries |-> dirs]
    ELSE fetchFound(srv, root, noBody, parent, file, mbox, dirs,
                    IF "criteria" \in DOMAIN crit
                    THEN SearchIn(srv, mbox, crit.criteria)
                    ELSE [err |-> "", ids |-> 1..Len(srv[mbox])])

\* fetchEntries from the search criteria on
fetchWithCriteria(srv, root, dir, noBody, client, parent, file, crit) ==
    IF crit.err = errorInvalidFileName THEN [err |-> "", entries |-> {}]
    ELSE IF crit.err # "" THEN [err |-> crit.err]
    ELSE fetchListed(srv, root, noBody, parent, file, dirToMailbox(client, parent),
                     crit,
                     IF file = <<>>
                     THEN {Dir(PathJoin(dir, name)) :
                             name \in ListMailboxes(client, parent)}
                     ELSE {})

\* fetchParsed with a fault: a mailbox the client does not know is listed
\* as empty where the code returns ErrorDirNotFound
fetchParsedAbsentAsEmpty(srv, root, dir, noBody, client, parent, file) ==
    IF parent = <<>> /\ file # <<>> THEN [err |-> "", entries |-> {}]
    ELSE IF parent # <<>> /\ ~HasMailbox(client, parent)
         THEN [err |-> "", entries |-> {}]
    ELSE fetchWithCriteria(srv, root, dir, noBody, client, parent, file,
                           IF parent # <<>> /\ file # <<>>
                           THEN searchCriteriaFromName(parent, file)
                           ELSE [err |-> ""])

\* fetchEntries from the check of parent and file on
fetchParsed(srv, root, dir, noBody, client, parent, file) ==
    IF parent = <<>> /\ file # <<>> THEN [err |-> "", entries |-> {}]
    ELSE IF parent # <<>> /\ ~HasMailbox(client, parent)
         THEN [err |-> ErrorDirNotFound]
    ELSE fetchWithCriteria(srv, root, dir, noBody, client, parent, file,
                           IF parent # <<>> /\ file # <<>>
                           THEN searchCriteriaFromName(parent, file)
                           ELSE [err |-> ""])

\* fetchEntries from the groups of the joined path on
fetchGroups(srv, root, dir, noBody, client, groups) ==
    fetchParsed(srv, root, dir, noBody, client,
                IF groups.file = <<>> THEN groups.dir ELSE groups.parent,
                groups.file)

\* fetchEntries, once logged in; noBody is the sequence number of a message
\* whose fetch response carries no body (0: every response has one)
fetchEntries(srv, root, dir, noBody) ==
    fetchGroups(srv, root, dir, noBody, newMailClient(srv),
                remoteRegex(PathJoin(root, dir)))

\* the smallest of a non-empty set of sequence numbers
RECURSIVE FirstFrom(_, _)
FirstFrom(ids, k) == IF k \in ids THEN k ELSE FirstFrom(ids, k + 1)

\* the messages of ids whose descriptor equals info
equalTo(srv, info, noBody, mbox, ids) ==
    {k \in ids :
        /\ messageToDescriptor(info.parent, <<>>, srv[mbox][k], k # noBody).err = ""
        /\ Equal(info, messageToDescriptor(info.parent, <<>>, srv[mbox][k], TRUE).info)}

\* findObject from the messages that equal info on: the first one fetched
findFirst(srv, root, info, mbox, equal) ==
    IF equal = {} THEN [err |-> ErrorObjectNotFound]
    ELSE [err |-> "",
          obj |-> Object(root, FirstFrom(equal, 1),
                    messageToDescriptor(info.parent, <<>>,
                                        srv[mbox][FirstFrom(equal, 1)], TRUE).info)]

\* findObject from the search result on
findFound(srv, root, info, noBody, mbox, found) ==
    IF found.err # "" THEN [err |-> ErrorObjectNotFound]
    ELSE IF found.ids = {} THEN [err |-> ErrorObjectNotFound]
    ELSE findFirst(srv, root, info, mbox, equalTo(srv, info, noBody, mbox, found.ids))

\* findObject, mbox being the server's name of the mailbox info.parent
findIn(srv, root, info, noBody, mbox) ==
    findFound(srv, root, info, noBody, mbox,
              SearchIn(srv, mbox, searchCriteriaFromDescriptor(info)))

\* Fs.findObject, once logged in: the first fetched message, in sequence
\* order, whose descriptor equals info
findObject(srv, root, info, noBody) ==
    findIn(srv, root, info, noBody, dirToMailbox(newMailClient(srv), info.parent))


\* ------------------------------------------------------------------
\* State
\* ------------------------------------------------------------------

VARIABLES
    server,   \* the IMAP server: mailbox name -> sequence of messages
    objs,     \* the Objects the caller holds from its last List
    res,      \* the outcome of the last Fs / Object operation
    arg,      \* the inputs of the name functions (descriptor, name)
    ret       \* the result of the name function applied to arg

vars == <<server, objs, res, arg, ret>>

\* ------------------------------------------------------------------
\* The name functions on their own
\* ------------------------------------------------------------------

Two31 == <<2, 1, 4, 7, 4, 8, 3, 6, 4, 8>>

NameDates == {<<1, 0, 0>>, <<1, 7, 0, 4, 0, 6, 7, 2, 0, 0>>}

NameSums == {<<"a", "b">>, <<"c", "0">>}

NameSizes == {<<0>>, <<5>>, <<6, 0>>, MaxInt32, Two31, MaxInt64}

NameFlags == {{}, {SeenFlag, DeletedFlag}}

\* descriptors with a date of whole seconds, a lowercase hex checksum and a
\* non-negative size of the int64 field
NameDescs ==
    {newDescriptor(<<>>, <<>>, Time(t, 0), c, z, f) :
        t \in NameDates, c \in NameSums, z \in NameSizes, f \in NameFlags}

\* a name put together from its parts, separators included
NameOf(prefix, date, sum, host, size, tail) ==
    prefix \o date \o <<".", "R">> \o sum \o <<".">> \o host
    \o <<",", "S", "=">> \o size \o <<"-", "2", ",">> \o tail

NameCands ==
    {NameOf(p, <<"1", "0", "0">>, <<"a", "b">>, h, z, t) :
        p \in {<<>>, <<"x">>, <<"A", "/">>, <<"0">>, <<"1", "x">>},
        h \in {imapHost},
        z \in {<<"6", "0">>, FormatInt(Two31), <<"6", "x">>},
        t \in {<<>>, <<"S">>, <<"X">>}}
    \cup {<<>>,
          <<"1", "0", "0">>,
          NameOf(<<>>, <<"1", "0", "0">>, <<"a", "b">>, <<"h">>, <<"6", "0">>, <<>>),
          <<"1", "0", "0", ".", "R", "a", "b", ".", "h", ",", "S", "=", "6", "0", "-", "2">>,
          <<"1", "0", "0", ".", "a", "b", ".", "h", ",", "S", "=", "6", "0", "-", "2", ",">>,
          <<"1", "0", "0", ".", "R", "a", "b", ".", "h", "S", "=", "6", "0", "-", "2", ",">>}

InitServerIdle ==
    /\ server = <<>>
    /\ objs = {}
    /\ res = [op |-> "none"]

InitName ==
    /\ InitServerIdle
    /\ arg \in [d : NameDescs, n : NameCands]
    /\ ret = [op |-> "none"]

\* parseName(canonicalName(includeFlags = false))
CallRoundTrip ==
    /\ ret.op = "none"
    /\ ret' = [op |-> "roundtrip",
               name |-> MaildirName(arg.d, FALSE),
               out |-> nameToDescriptor(arg.d.parent, MaildirName(arg.d, FALSE))]
    /\ UNCHANGED <<server, objs, res, arg>>

CallNameToDescriptor ==
    /\ ret.op = "none"
    /\ ret' = [op |-> "nameToDescriptor",
               out |-> nameToDescriptor(arg.d.parent, arg.n)]
    /\ UNCHANGED <<server, objs, res, arg>>

CallMatches ==
    /\ ret.op = "none"
    /\ ret' = [op |-> "Matches", out |-> Matches(arg.d, arg.n)]
    /\ UNCHANGED <<server, objs, res, arg>>

NextName == CallRoundTrip \/ CallNameToDescriptor \/ CallMatches

SpecName == InitName /\ [][NextName]_vars

\* ------------------------------------------------------------------
\* Claims about the name functions
\* ------------------------------------------------------------------

\* C4: for every descriptor with a date of whole seconds, a lowercase hex
\* checksum and a non-negative int64 size, parseName of
\* canonicalName(includeFlags = false) succeeds and yields a descriptor
\* equal to the original in date, checksum and size.
C4_RoundTrip ==
    ret.op = "roundtrip" =>
        /\ ret.out.err = ""
        /\ Equal(ret.out.info, arg.d)

FlagLetterSet == {"S", "A", "T", "D", "F"}

\* s is, from its first character to its last, an instance of
\* <digits>.R<checksum>.<host>,S=<digits>-2,<flagLetters>
InGrammar(s) ==
    LET m == MatchNameAt(s, 1)
    IN  /\ m.ok
        /\ \A k \in 1..Len(m.tail) : m.tail[k] \in FlagLetterSet

\* C5: parseName returns InvalidNameError for every name that is not exactly
\* an instance of the canonical grammar; it never accepts a name by parsing
\* only a part of it.
C5_NoPartialParse ==
    (ret.op = "nameToDescriptor" /\ ret.out.err = "") => InGrammar(PathBase(arg.n))

\* C6: d.matchesName(n) is true exactly when parseName(n) succeeds and its
\* result equals d in date, checksum and size.
C6_MatchesIffParsedEqual ==
    ret.op = "Matches" =>
        LET parsed == nameToDescriptor(arg.d.parent, arg.n)
        IN  ret.out = (parsed.err = "" /\ Equal(parsed.info, arg.d))


\* ------------------------------------------------------------------
\* The operations of Fs and Object, over the server
\* ------------------------------------------------------------------

\* the most messages the server holds
MaxMsgs == 2

\* the highest sequence number whose fetch response may lack its body
MaxNoBody == 1

MailboxA == <<"A">>

MailboxB == <<"B">>

Roots == {<<>>, MailboxA}

\* the canonical name of the content "mail60" dated 100 s after the epoch
Name60 == SprintfName(<<1, 0, 0>>, MD5("mail60"), ItoN(BodySize("mail60")))

PlainName == <<"m">>

ListDirs == {<<>>, MailboxA, MailboxB, Name60}

MkdirDirs == {<<>>, MailboxA}

Source(remote, modTime, body, hasSource, isSeeker) ==
    [remote |-> remote, modTime |-> modTime, body |-> body,
     hasSource |-> hasSource, isSeeker |-> isSeeker]

\* the objects given to Put: src.Remote(), src.ModTime(), the content read
\* from in (src.Size() is its length), whether the context carries the
\* source object, and whether in is an io.ReadSeeker
PutSources ==
    {Source(PlainName, Time(<<1, 0, 0>>, 0), "mail60", FALSE, TRUE),
     Source(MailboxA \o <<"/">> \o PlainName, Time(<<1, 0, 0>>, 0), "mail60", FALSE, TRUE),
     Source(PlainName, Time(<<1, 0, 0>>, 5), "mail60", FALSE, TRUE),
     Source(Name60, Time(<<1, 0, 0>>, 0), "mail60", FALSE, TRUE),
     Source(PlainName, Time(<<1, 0, 0>>, 0), "hello", FALSE, TRUE),
     Source(PlainName, Time(<<1, 0, 0>>, 0), "junk", FALSE, TRUE),
     Source(PlainName, Time(<<1, 0, 0>>, 0), "mail60", TRUE, TRUE),
     Source(PlainName, Time(<<1, 0, 0>>, 0), "mail60", FALSE, FALSE)}

NoSource == [hasSource |-> FALSE]

Init ==
    /\ server = [n \in {MailboxA, MailboxB} |-> <<>>]
    /\ objs = {}
    /\ res = [op |-> "none"]
    /\ arg = <<>>
    /\ ret = [op |-> "none"]

Operations == {"List", "NewObject", "Put", "Remove", "Mkdir"}

\* an operation whose newMailClient fails to dial or to log in: it returns
\* that error and has sent no command
Unreachable(op) ==
    /\ res' = [op |-> op, err |-> ErrorDial]
    /\ UNCHANGED <<server, objs, arg, ret>>

\* Fs.List(dir), r being what fetchEntries returns
ListResult(root, dir, noBody, r) ==
    /\ res' = [op |-> "List", root |-> root, dir |-> dir, noBody |-> noBody] @@ r
    /\ objs' = IF r.err = "" THEN {e \in r.entries : e.kind = "object"} ELSE {}
    /\ UNCHANGED <<server, arg, ret>>

\* Fs.List(dir)
List(root, dir, noBody) ==
    ListResult(root, dir, noBody, fetchEntries(server, root, dir, noBody))

\* Fs.NewObject from the descriptor on
NewObjectOf(root, info) ==
    IF info.err # "" THEN [err |-> info.err]
    ELSE findObject(server, root, info.info, 0)

\* Fs.NewObject(remote); hint is the source object of the context, if any
NewObject(root, remote, hint) ==
    /\ res' = [op |-> "NewObject", root |-> root, remote |-> remote, hint |-> hint]
              @@ NewObjectOf(root,
                             IF hint.hasSource THEN objectToDescriptor(root, hint)
                             ELSE nameToDescriptor(root, remote))
    /\ UNCHANGED <<server, objs, arg, ret>>

\* the descriptor Put derives from the content when the name gave none
PutByReader(root, src, byName) ==
    IF byName.err # ""
    THEN readerToDescriptor(root, src.remote, src.modTime, src.body,
                            src.isSeeker, ItoN(BodySize(src.body)), {})
    ELSE byName

\* the descriptor Put derives from the name when the source object gave none
PutByName(root, src, bySource) ==
    PutByReader(root, src,
                IF bySource.err # "" THEN nameToDescriptor(root, src.remote)
                ELSE bySource)

\* the descriptor Put derives: source object, then name, then content
PutDescriptor(root, src) ==
    PutByName(root, src,
              IF src.hasSource THEN objectToDescriptor(root, src)
              ELSE Failed(errorReadingMessage))

\* Fs.Put from the result of mailclient.Save on
PutSaved(root, src, info, mailbox, created, saved) ==
    IF ~saved.ok
    THEN /\ res' = [op |-> "Put", root |-> root, src |-> src,
                    err |-> "failed to save message", appended |-> FALSE]
         /\ server' = created
         /\ objs' = {}
    ELSE /\ res' = [op |-> "Put", root |-> root, src |-> src,
                    appended |-> TRUE, info |-> info, mailbox |-> mailbox]
                   @@ findObject(saved.srv, root, info, 0)
         /\ server' = saved.srv
         /\ objs' = {}

\* Fs.Put from the result of mailclient.CreateMailbox on
PutCreated(root, src, info, mailbox, created) ==
    IF ~created.ok
    THEN /\ res' = [op |-> "Put", root |-> root, src |-> src,
                    err |-> "failed to create mailbox", appended |-> FALSE]
         /\ UNCHANGED <<server, objs>>
    ELSE PutSaved(root, src, info, mailbox, created.srv,
                  ServerAppend(created.srv,
                               dirToMailbox(newMailClient(created.srv), mailbox),
                               info.flags, NtoI(info.date.sec), src.body,
                               NtoI(info.size)))

\* PutInto with a fault: the message is appended without asking HasMailbox
\* and without creating the mailbox
PutIntoNoCreate(root, src, info, client, mailbox) ==
    PutCreated(root, src, info, mailbox, [ok |-> TRUE, srv |-> server])

\* Fs.Put from the mailbox of the message on
PutInto(root, src, info, client, mailbox) ==
    PutCreated(root, src, info, mailbox,
               IF HasMailbox(client, mailbox) THEN [ok |-> TRUE, srv |-> server]
               ELSE ServerCreate(server, dirToMailbox(client, mailbox)))

\* Fs.Put from the descriptor on
PutInfo(root, src, d) ==
    IF d.err # ""
    THEN /\ res' = [op |-> "Put", root |-> root, src |-> src, err |-> d.err,
                    appended |-> FALSE]
         /\ UNCHANGED <<server, objs>>
    ELSE PutInto(root, src, d.info, newMailClient(server),
                 PathJoin(d.info.parent, PathDir(src.remote)))

\* Fs.Put(in, src)
Put(root, src) ==
    /\ TotalMessages(server) < MaxMsgs
    /\ PutInfo(root, src, PutDescriptor(root, src))
    /\ UNCHANGED <<arg, ret>>

\* mailclient.SetFlags(mailbox, seqNum, Deleted) then ExpungeMailbox(mailbox),
\* mbox being the server's name of the mailbox
RemoveStored(srv, mbox, stored) ==
    IF ~stored.ok THEN [err |-> "failed to set flags", srv |-> srv]
    ELSE [err |-> "", srv |-> ServerExpunge(stored.srv, mbox)]

RemoveIn(srv, mbox, seqNum) ==
    IF ~Select(srv, mbox) THEN [err |-> ErrorDirNotFound, srv |-> srv]
    ELSE RemoveStored(srv, mbox, ServerStore(srv, mbox, seqNum, {DeletedFlag}))

RemoveOn(srv, mailbox, seqNum) ==
    RemoveIn(srv, dirToMailbox(newMailClient(srv), mailbox), seqNum)

\* Object.Remove, r being the outcome on the server
RemoveResult(o, mailbox, r) ==
    /\ res' = [op |-> "Remove", o |-> o, mailbox |-> mailbox, err |-> r.err]
    /\ server' = r.srv
    /\ objs' = IF r.srv = server THEN objs ELSE {}
    /\ UNCHANGED <<arg, ret>>

\* Object.Remove
Remove(o) ==
    RemoveResult(o, PathJoin(o.root, o.info.parent),
                 RemoveOn(server, PathJoin(o.root, o.info.parent), o.seqNum))

\* Fs.Mkdir from the result of mailclient.CreateMailbox on
MkdirCreated(root, dir, created) ==
    /\ res' = [op |-> "Mkdir", root |-> root, dir |-> dir,
               err |-> IF created.ok THEN "" ELSE "failed to create mailbox",
               creates |-> 1]
    /\ server' = created.srv
    /\ objs' = IF created.ok THEN {} ELSE objs

\* MkdirPath with a fault: the create is sent without asking HasMailbox
MkdirPathAlwaysCreates(root, dir, client, path) ==
    MkdirCreated(root, dir, ServerCreate(server, dirToMailbox(client, path)))

\* Fs.Mkdir, path being root joined with dir
MkdirPath(root, dir, client, path) ==
    IF HasMailbox(client, path)
    THEN /\ res' = [op |-> "Mkdir", root |-> root, dir |-> dir,
                    err |-> "", creates |-> 0]
         /\ UNCHANGED <<server, objs>>
    ELSE MkdirCreated(root, dir, ServerCreate(server, dirToMailbox(client, path)))

\* Fs.Mkdir(dir)
Mkdir(root, dir) ==
    /\ MkdirPath(root, dir, newMailClient(server), PathJoin(root, dir))
    /\ UNCHANGED <<arg, ret>>

NoBodySeqs == 0..MaxNoBody

Next ==
    \/ \E root \in Roots, dir \in ListDirs, noBody \in NoBodySeqs :
          List(root, dir, noBody)
    \/ \E o \in objs : NewObject(o.root, Remote(o), NoSource)
    \/ \E root \in Roots, hint \in {NoSource} \cup {s \in PutSources : s.hasSource} :
          NewObject(root, PlainName, hint)
    \/ \E root \in Roots, src \in PutSources : Put(root, src)
    \/ \E o \in objs : Remove(o)
    \/ \E root \in Roots, dir \in MkdirDirs : Mkdir(root, dir)
    \/ \E op \in Operations : Unreachable(op)

Spec == Init /\ [][Next]_vars


\* ------------------------------------------------------------------
\* Claims about the operations
\* ------------------------------------------------------------------

\* the mailbox Object.Open fetches o from
OpenMailbox(o) == PathJoin(o.info.parent, PathDir(o.info.name))

\* mailboxExists(dir) on the server srv
mailboxExists(srv, dir) == HasMailbox(newMailClient(srv), dir)

\* the message entries of a listing
ObjectsOf(entries) == {e \in entries : e.kind = "object"}

\* the directory entries of a listing
DirsOf(entries) == {e \in entries : e.kind = "dir"}

\* the names of the server's top-level mailboxes: what comes before the
\* first hierarchy delimiter of each mailbox name
TopLevel(srv) == {Sub(n, 1, IndexFrom(n, Delimiter, 1) - 1) : n \in DOMAIN srv}

\* the names, below the mailbox mbox, of its child mailboxes
Children(srv, mbox) ==
    {Sub(n, Len(mbox) + 2, IndexFrom(n, Delimiter, Len(mbox) + 2) - 1) :
        n \in {x \in DOMAIN srv : HasPrefix(x, mbox \o <<Delimiter>>)}}

\* a sequence without its k-th element
Without(seq, k) == Sub(seq, 1, k - 1) \o Sub(seq, k + 1, Len(seq))

\* C1: on an unchanged server, for every root and every listed directory,
\* each message object o that List returned is found again by
\* NewObject(o.Remote()): the call returns an object with the same date,
\* checksum and size from the same mailbox, and not ErrorObjectNotFound.
C1_ListedObjectFound ==
    (/\ res.op = "NewObject"
     /\ res.err # ErrorDial
     /\ ~res.hint.hasSource)
    => \A o \in objs :
          (o.root = res.root /\ Remote(o) = res.remote)
          => /\ res.err = ""
             /\ Equal(res.obj.info, o.info)
             /\ res.obj.info.parent = o.info.parent

\* C2: whenever Put has appended the message, it returns the stored object,
\* equal in date, checksum and size to the uploaded descriptor and located
\* in the mailbox path.Join(root, dir(src.Remote())), for every remote and
\* every modification time.
C2_PutReturnsStored ==
    (/\ res.op = "Put"
     /\ res.err # ErrorDial
     /\ res.appended)
    => /\ res.err = ""
       /\ Equal(res.obj.info, res.info)
       /\ res.obj.info.parent = PathJoin(res.root, PathDir(res.src.remote))

\* C3: for every root, Remove of a listed object o sets the Deleted flag and
\* expunges in the mailbox o was listed from, the one Open fetches from;
\* when it returns success that message is gone from the mailbox and the
\* other messages are still there.
C3_RemoveInListedMailbox ==
    [][(res'.op = "Remove" /\ res'.err # ErrorDial)
       => /\ res'.mailbox = OpenMailbox(res'.o)
          /\ res'.err = ""
             => server' = [server EXCEPT
                              ![dirToMailbox(newMailClient(server), res'.o.info.parent)]
                                  = Without(@, res'.o.seqNum)]]_vars

\* C7: listing the root (the resolved parent mailbox is "") returns only
\* directory entries, one for each top-level mailbox, and never a message
\* entry, whatever the server holds; a file candidate directly under the
\* root yields an empty result and no error.
C7_RootListsOnlyMailboxes ==
    (res.op = "List" /\ res.err # ErrorDial)
    => /\ PathJoin(res.root, res.dir) = <<>>
          => /\ res.err = ""
             /\ res.entries = {Dir(top) : top \in TopLevel(server)}
       /\ (remoteRegex(PathJoin(res.root, res.dir)).file # <<>>
           /\ remoteRegex(PathJoin(res.root, res.dir)).parent = <<>>)
          => /\ res.err = ""
             /\ res.entries = {}

\* C7 witness: the root was listed while the server held messages and a
\* nested mailbox, and the listing has entries
C7_Witness ==
    /\ res.op = "List"
    /\ res.err = ""
    /\ PathJoin(res.root, res.dir) = <<>>
    /\ res.entries # {}
    /\ TotalMessages(server) > 0
    /\ Cardinality(DOMAIN server) > Cardinality(TopLevel(server))

C9_ListsEveryMessage ==
    (/\ res.op = "List"
     /\ res.err = ""
     /\ PathJoin(res.root, res.dir) # <<>>
     /\ remoteRegex(PathJoin(res.root, res.dir)).file = <<>>)
    => /\ {e.seqNum : e \in ObjectsOf(res.entries)}
            = 1..Len(server[dirToMailbox(newMailClient(server),
                                         PathJoin(res.root, res.dir))])
       /\ DirsOf(res.entries)
            = {Dir(PathJoin(res.dir, c)) :
                 c \in Children(server, dirToMailbox(newMailClient(server),
                                                     PathJoin(res.root, res.dir)))}

\* C10: Mkdir on a mailbox that exists returns success, issues no create
\* and leaves the server's mailboxes and messages as they are; on an absent
\* mailbox it issues one create, and after success the mailbox exists and
\* nothing else changed; a second Mkdir after a successful one changes
\* nothing.
C10_MkdirIdempotent ==
    [][(res'.op = "Mkdir" /\ res'.err # ErrorDial)
       => /\ mailboxExists(server, PathJoin(res'.root, res'.dir))
             => /\ res'.err = ""
                /\ res'.creates = 0
                /\ server' = server
          /\ ~mailboxExists(server, PathJoin(res'.root, res'.dir))
             => /\ res'.creates = 1
                /\ res'.err = ""
                   => /\ mailboxExists(server', PathJoin(res'.root, res'.dir))
                      /\ \A n \in DOMAIN server : /\ n \in DOMAIN server'
                                                  /\ server'[n] = server[n]
                      /\ Cardinality(DOMAIN server') = Cardinality(DOMAIN server) + 1
          /\ (/\ res.op = "Mkdir"
              /\ res.err = ""
              /\ res'.root = res.root
              /\ res'.dir = res.dir)
             => /\ res'.err = ""
                /\ res'.creates = 0
                /\ server' = server]_vars

\* C10 witness: Mkdir created a mailbox that was absent
C10_Witness ==
    /\ res.op = "Mkdir"
    /\ res.err = ""
    /\ res.creates = 1
    /\ mailboxExists(server, PathJoin(res.root, res.dir))

\* ------------------------------------------------------------------
\* Connections and directory operations
\* ------------------------------------------------------------------

\* DELETE mailbox
ServerDelete(srv, mailbox) ==
    IF mailbox \notin DOMAIN srv
    THEN [ok |-> FALSE, srv |-> srv]
    ELSE [ok |-> TRUE, srv |-> [n \in DOMAIN srv \ {mailbox} |-> srv[n]]]

\* the f.security settings
Securities == {"starttls", "tls", "none"}

\* the steps of mailclient.login that may fail; "" is a login without failure
LoginFailures == {"", "dial", "starttls", "login", "refresh"}

\* the settings and failures of a login: StartTLS is only done when the
\* security setting asks for it
Logins ==
    {l \in [security : Securities, fail : LoginFailures] :
        l.fail = "starttls" => l.security = "starttls"}

\* login with a fault: a failing StartTLS returns without the Logout
loginNoLogoutOnStartTLS(l) ==
    CASE l.fail = "dial" -> [ok |-> FALSE, cmds |-> <<>>]
      [] l.fail = "starttls" -> [ok |-> FALSE, cmds |-> <<"DIAL", "STARTTLS">>]
      [] l.fail = "login" ->
            [ok |-> FALSE,
             cmds |-> (IF l.security = "starttls" THEN <<"DIAL", "STARTTLS">>
                       ELSE <<"DIAL">>) \o <<"LOGIN", "LOGOUT">>]
      [] l.fail = "refresh" ->
            [ok |-> FALSE,
             cmds |-> (IF l.security = "starttls" THEN <<"DIAL", "STARTTLS">>
                       ELSE <<"DIAL">>) \o <<"LOGIN", "LIST", "LOGOUT">>]
      [] OTHER ->
            [ok |-> TRUE,
             cmds |-> (IF l.security = "starttls" THEN <<"DIAL", "STARTTLS">>
                       ELSE <<"DIAL">>) \o <<"LOGIN", "LIST">>]

\* mailclient.login, failing at the step l.fail: the connection events of
\* the call, DIAL being a successful dial, and whether the client is
\* connected afterwards
login(l) ==
    CASE l.fail = "dial" -> [ok |-> FALSE, cmds |-> <<>>]
      [] l.fail = "starttls" ->
            [ok |-> FALSE, cmds |-> <<"DIAL", "STARTTLS", "LOGOUT">>]
      [] l.fail = "login" ->
            [ok |-> FALSE,
             cmds |-> (IF l.security = "starttls" THEN <<"DIAL", "STARTTLS">>
                       ELSE <<"DIAL">>) \o <<"LOGIN", "LOGOUT">>]
      [] l.fail = "refresh" ->
            [ok |-> FALSE,
             cmds |-> (IF l.security = "starttls" THEN <<"DIAL", "STARTTLS">>
                       ELSE <<"DIAL">>) \o <<"LOGIN", "LIST", "LOGOUT">>]
      [] OTHER ->
            [ok |-> TRUE,
             cmds |-> (IF l.security = "starttls" THEN <<"DIAL", "STARTTLS">>
                       ELSE <<"DIAL">>) \o <<"LOGIN", "LIST">>]

\* DeleteMailbox with a fault: the mailbox is deleted without looking at
\* its message count
DeleteSelectedAnyCount(srv, mbox) ==
    IF ~Select(srv, mbox)
    THEN [err |-> ErrorDirNotFound, cmds |-> <<"SELECT">>, srv |-> srv]
    ELSE [err |-> "", cmds |-> <<"SELECT", "DELETE", "LIST">>,
          srv |-> ServerDelete(srv, mbox).srv]

\* mailclient.DeleteMailbox(name) from the select on, mbox being the
\* server's name of the mailbox
DeleteSelected(srv, mbox) ==
    IF ~Select(srv, mbox)
    THEN [err |-> ErrorDirNotFound, cmds |-> <<"SELECT">>, srv |-> srv]
    ELSE IF Len(srv[mbox]) # 0
    THEN [err |-> "mailbox not empty", cmds |-> <<"SELECT">>, srv |-> srv]
    ELSE [err |-> "", cmds |-> <<"SELECT", "DELETE", "LIST">>,
          srv |-> ServerDelete(srv, mbox).srv]

\* mailclient.DeleteMailbox(name) on the connected client m
DeleteMailbox(srv, m, name) ==
    IF name = <<>>
    THEN [err |-> "cant remove root", cmds |-> <<>>, srv |-> srv]
    ELSE DeleteSelected(srv, dirToMailbox(m, name))

\* Fs.Rmdir from the login on, r being the outcome of the calls made on
\* the connected client; retry tells whether the error may be retried
RmdirResult(root, dir, l, r, retry) ==
    /\ res' = [op |-> "Rmdir", root |-> root, dir |-> dir, login |-> l,
               err |-> r.err, retry |-> retry,
               cmds |-> login(l).cmds \o r.cmds \o <<"LOGOUT">>]
    /\ server' = r.srv

\* Fs.Rmdir, path being root joined with dir
RmdirPath(root, dir, l, client, path) ==
    IF ~login(l).ok
    THEN /\ res' = [op |-> "Rmdir", root |-> root, dir |-> dir, login |-> l,
                    err |-> ErrorDial, retry |-> TRUE, cmds |-> login(l).cmds]
         /\ UNCHANGED server
    ELSE IF ~HasMailbox(client, path)
    THEN RmdirResult(root, dir, l, [err |-> "", cmds |-> <<>>, srv |-> server], TRUE)
    ELSE RmdirResult(root, dir, l, DeleteMailbox(server, client, path), FALSE)

\* Fs.Rmdir(dir)
Rmdir(root, dir, l) ==
    /\ RmdirPath(root, dir, l, newMailClient(server), PathJoin(root, dir))
    /\ UNCHANGED <<objs, arg, ret>>

\* the name the mailbox n has after RENAME from to: the mailbox and its
\* inferior names move
Renamed(n, from, to) ==
    IF n = from THEN to
    ELSE IF HasPrefix(n, from \o <<Delimiter>>)
    THEN to \o Sub(n, Len(from) + 1, Len(n))
    ELSE n

\* RENAME from to
ServerRename(srv, from, to) ==
    IF \/ from \notin DOMAIN srv
       \/ to \in DOMAIN srv
       \/ ~ValidMailboxName(to)
       \/ \E n, k \in DOMAIN srv :
             n # k /\ Renamed(n, from, to) = Renamed(k, from, to)
    THEN [ok |-> FALSE, srv |-> srv]
    ELSE [ok |-> TRUE,
          srv |-> [n \in {Renamed(x, from, to) : x \in DOMAIN srv} |->
                      srv[CHOOSE x \in DOMAIN srv : Renamed(x, from, to) = n]]]

ErrorCantDirMove == "can't move directory - incompatible remotes"

ErrorDirExists == "can't copy directory - destination already exists"

\* Fs.DirMove from the result of mailclient.RenameMailbox on
DirMoveRenamed(in, renamed) ==
    /\ res' = [op |-> "DirMove", in |-> in,
               err |-> IF renamed.ok THEN "" ELSE "failed to rename mailbox",
               cmds |-> login(in.login).cmds
                        \o (IF renamed.ok THEN <<"RENAME", "LIST">> ELSE <<"RENAME">>)
                        \o <<"LOGOUT">>]
    /\ server' = renamed.srv

\* DirMovePaths with a fault: the connection is opened before the type of
\* the source is looked at
DirMoveConnectsFirst(in, client, srcPath, dstPath) ==
    IF ~login(in.login).ok
    THEN /\ res' = [op |-> "DirMove", in |-> in, err |-> ErrorDial,
                    cmds |-> login(in.login).cmds]
         /\ UNCHANGED server
    ELSE IF ~in.sameType
    THEN /\ res' = [op |-> "DirMove", in |-> in, err |-> ErrorCantDirMove,
                    cmds |-> login(in.login).cmds \o <<"LOGOUT">>]
         /\ UNCHANGED server
    ELSE IF HasMailbox(client, dstPath)
    THEN /\ res' = [op |-> "DirMove", in |-> in, err |-> ErrorDirExists,
                    cmds |-> login(in.login).cmds \o <<"LOGOUT">>]
         /\ UNCHANGED server
    ELSE DirMoveRenamed(in, ServerRename(server, dirToMailbox(client, srcPath),
                                         dirToMailbox(client, dstPath)))

\* DirMovePaths with a fault: the rename is sent without asking HasMailbox
\* for the destination
DirMoveOverwrites(in, client, srcPath, dstPath) ==
    IF ~in.sameType
    THEN /\ res' = [op |-> "DirMove", in |-> in, err |-> ErrorCantDirMove,
                    cmds |-> <<>>]
         /\ UNCHANGED server
    ELSE IF ~login(in.login).ok
    THEN /\ res' = [op |-> "DirMove", in |-> in, err |-> ErrorDial,
                    cmds |-> login(in.login).cmds]
         /\ UNCHANGED server
    ELSE DirMoveRenamed(in, ServerRename(server, dirToMailbox(client, srcPath),
                                         dirToMailbox(client, dstPath)))

\* Fs.DirMove, srcPath and dstPath being the joined paths
DirMovePaths(in, client, srcPath, dstPath) ==
    IF ~in.sameType
    THEN /\ res' = [op |-> "DirMove", in |-> in, err |-> ErrorCantDirMove,
                    cmds |-> <<>>]
         /\ UNCHANGED server
    ELSE IF ~login(in.login).ok
    THEN /\ res' = [op |-> "DirMove", in |-> in, err |-> ErrorDial,
                    cmds |-> login(in.login).cmds]
         /\ UNCHANGED server
    ELSE IF HasMailbox(client, dstPath)
    THEN /\ res' = [op |-> "DirMove", in |-> in, err |-> ErrorDirExists,
                    cmds |-> login(in.login).cmds \o <<"LOGOUT">>]
         /\ UNCHANGED server
    ELSE DirMoveRenamed(in, ServerRename(server, dirToMailbox(client, srcPath),
                                         dirToMailbox(client, dstPath)))

\* Fs.DirMove(src, srcRemote, dstRemote); in.sameType tells whether src is
\* a filesystem of this backend, in.srcRoot is its root and in.root is f.root
DirMove(in) ==
    /\ DirMovePaths(in, newMailClient(server),
                    PathJoin(in.srcRoot, in.srcRemote),
                    PathJoin(in.root, in.dstRemote))
    /\ UNCHANGED <<objs, arg, ret>>

MailboxC == <<"C">>

\* the login of the directory operations that reach the server
DirLogin == [security |-> "starttls", fail |-> ""]

\* the calls of DirMove: every pair of paths between filesystems of this
\* backend, and two calls with a source of another backend
DirMoves ==
    [sameType : {TRUE}, srcRoot : Roots, srcRemote : {<<>>, MailboxB},
     root : Roots, dstRemote : {MailboxB, MailboxC}, login : {DirLogin}]
    \cup [sameType : {FALSE}, srcRoot : {<<>>}, srcRemote : {MailboxB},
          root : {<<>>}, dstRemote : {MailboxB, MailboxC}, login : {DirLogin}]

\* the most messages a mailbox holds when the directory operations start
MaxDirMsgs == 1

MailboxAB == <<"A", ".", "B">>

DirMailboxes == {MailboxA, MailboxB, MailboxAB}

\* a stored message of 60 bytes
Stored60 == [date |-> 100, body |-> "mail60", size |-> 60, flags |-> {}]

\* a mailbox of k such messages
RECURSIVE Copies(_)
Copies(k) == IF k = 0 THEN <<>> ELSE Append(Copies(k - 1), Stored60)

RmdirDirs == {<<>>, MailboxB}

\* the server holds some of the mailboxes, each with up to MaxDirMsgs messages
InitDir ==
    /\ server \in UNION {[names -> {Copies(k) : k \in 0..MaxDirMsgs}] :
                            names \in SUBSET DirMailboxes}
    /\ objs = {}
    /\ res = [op |-> "none"]
    /\ arg = <<>>
    /\ ret = [op |-> "none"]

NextDir ==
    \/ \E root \in Roots, dir \in RmdirDirs : Rmdir(root, dir, DirLogin)
    \/ \E in \in DirMoves : DirMove(in)
    \/ \E op \in {"Rmdir", "DirMove"} : Unreachable(op)

SpecDir == InitDir /\ [][NextDir]_vars

C12_OtherTypeNoConnection ==
    (res.op = "DirMove" /\ res.err # ErrorDial /\ ~res.in.sameType)
    => /\ res.err = ErrorCantDirMove
       /\ res.cmds = <<>>

\* C12 witness: DirMove was refused for a source of another type while a
\* login would have succeeded and the rename was possible
C12_Witness ==
    /\ res.op = "DirMove"
    /\ res.err = ErrorCantDirMove
    /\ ~res.in.sameType
    /\ res.in.login.fail = ""
    /\ mailboxExists(server, PathJoin(res.in.srcRoot, res.in.srcRemote))
    /\ ~mailboxExists(server, PathJoin(res.in.root, res.in.dstRemote))

\* C13: DirMove, between filesystems of this backend, whose destination
\* mailbox exists returns ErrorDirExists, sends no rename and leaves every
\* mailbox and message as it is; when the destination is absent and the
\* call succeeds, the destination mailbox exists afterwards, holding the
\* messages of the source, and the source mailbox does not.
C13_DirMoveKeepsDestination ==
    [][(res'.op = "DirMove" /\ res'.err # ErrorDial /\ res'.in.sameType)
       => /\ mailboxExists(server, PathJoin(res'.in.root, res'.in.dstRemote))
             => /\ res'.err = ErrorDirExists
                /\ \A i \in DOMAIN res'.cmds : res'.cmds[i] # "RENAME"
                /\ server' = server
          /\ (/\ ~mailboxExists(server, PathJoin(res'.in.root, res'.in.dstRemote))
              /\ res'.err = "")
             => /\ mailboxExists(server', PathJoin(res'.in.root, res'.in.dstRemote))
                /\ ~mailboxExists(server', PathJoin(res'.in.srcRoot, res'.in.srcRemote))
                /\ server'[dirToMailbox(newMailClient(server'),
                                        PathJoin(res'.in.root, res'.in.dstRemote))]
                     = server[dirToMailbox(newMailClient(server),
                                           PathJoin(res'.in.srcRoot, res'.in.srcRemote))]]_vars

\* C13 witness: DirMove renamed a mailbox that holds a message and has an
\* inferior mailbox
C13_Witness ==
    /\ res.op = "DirMove"
    /\ res.err = ""
    /\ res.in.srcRemote = <<>>
    /\ res.in.srcRoot = MailboxA
    /\ server[dirToMailbox(newMailClient(server),
                           PathJoin(res.in.root, res.in.dstRemote))] # <<>>
    /\ \E n \in DOMAIN server :
          HasPrefix(n, dirToMailbox(newMailClient(server),
                                    PathJoin(res.in.root, res.in.dstRemote))
                       \o <<Delimiter>>)

\* ------------------------------------------------------------------
\* Content: validation and hashes
\* ------------------------------------------------------------------

\* the SHA-1 digest of a content, as a lowercase hex string
SHA1(body) ==
    CASE body = "mail60" -> <<"7", "c">>
      [] body = "hello" -> <<"a", "a">>
      [] OTHER -> <<"0", "b">>

\* Fs.Hashes
Hashes == {"MD5", "SHA1"}

ErrUnsupported == "hash type not supported"

\* createHash(reader, t...): the multi hasher is made for the types t, and
\* the digest asked of it for every one of them is the MD5 digest, which a
\* hasher made without MD5 does not have
createHash(body, t) == [curr \in {c \in t : "MD5" \in t} |-> MD5(body)]

\* mailclient.FetchSingle(mailbox, id, BODY.PEEK[]), mbox being the
\* server's name of the mailbox
FetchSingle(srv, mbox, id) ==
    IF ~Select(srv, mbox) THEN [err |-> ErrorDirNotFound]
    ELSE IF id \notin 1..Len(srv[mbox]) THEN [err |-> "failed to fetch message"]
    ELSE [err |-> "", body |-> srv[mbox][id].body]

\* Object.Open with a fault: the fetched message is compared with the
\* checksum of the descriptor before it is returned
OpenRechecks(srv, o) ==
    IF FetchSingle(srv, dirToMailbox(newMailClient(srv), OpenMailbox(o)), o.seqNum).err = ""
       /\ MD5(FetchSingle(srv, dirToMailbox(newMailClient(srv), OpenMailbox(o)),
                          o.seqNum).body) # o.info.md5sum
    THEN [err |-> ErrorObjectNotFound]
    ELSE FetchSingle(srv, dirToMailbox(newMailClient(srv), OpenMailbox(o)), o.seqNum)

\* Object.Open
Open(srv, o) ==
    FetchSingle(srv, dirToMailbox(newMailClient(srv), OpenMailbox(o)), o.seqNum)

\* Object.Hash(t), opened being what Open returns; every Object is made
\* with the MD5 checksum of its descriptor in o.hashes
HashOf(o, t, opened) ==
    IF t = "MD5" THEN [err |-> "", sum |-> o.info.md5sum]
    ELSE IF opened.err # "" THEN [err |-> "failed to calculate"]
    ELSE IF t \notin DOMAIN createHash(opened.body, {t})
    THEN [err |-> ErrUnsupported]
    ELSE [err |-> "", sum |-> createHash(opened.body, {t})[t]]

\* Object.Hash(t)
Hash(o, t) ==
    /\ res' = [op |-> "Hash", o |-> o, t |-> t] @@ HashOf(o, t, Open(server, o))
    /\ UNCHANGED <<server, objs, arg, ret>>

\* a canonical name whose size is the length of the content "junk"
NameJunk == SprintfName(<<1, 0, 0>>, MD5("junk"), ItoN(BodySize("junk")))

\* the uploads of contents: a mail message and a content that is no mail
\* message, under a plain name and under a canonical name, with and
\* without the source object in the context
ContentSources ==
    {Source(PlainName, Time(<<1, 0, 0>>, 0), "mail60", FALSE, TRUE),
     Source(Name60, Time(<<1, 0, 0>>, 0), "mail60", FALSE, TRUE),
     Source(PlainName, Time(<<1, 0, 0>>, 0), "junk", FALSE, TRUE),
     Source(PlainName, Time(<<1, 0, 0>>, 0), "junk", TRUE, TRUE),
     Source(NameJunk, Time(<<1, 0, 0>>, 0), "junk", FALSE, TRUE),
     Source(NameJunk, Time(<<1, 0, 0>>, 0), "junk", TRUE, TRUE)}

NextContent ==
    \/ \E root \in Roots, src \in ContentSources : Put(root, src)
    \/ \E root \in Roots, dir \in {<<>>, MailboxA} : List(root, dir, 0)
    \/ \E o \in objs, t \in Hashes : Hash(o, t)
    \/ \E op \in {"Put", "List", "Hash"} : Unreachable(op)

SpecContent == Init /\ [][NextContent]_vars

\* C14: Put never appends a content that is no well-formed mail message:
\* whichever way the descriptor is derived (source object, name, content),
\* a content that fails the message check is rejected with an error and
\* nothing is appended.
C14_PutValidatesContent ==
    (/\ res.op = "Put"
     /\ res.err # ErrorDial
     /\ ~isMessage(res.src.body))
    => /\ ~res.appended
       /\ res.err # ""

\* the digest of a content under the hash type t
Digest(t, body) == IF t = "MD5" THEN MD5(body) ELSE SHA1(body)

\* C15: for each of the hash types that Hashes advertises, MD5 and SHA1,
\* and every listed object, Hash(t) returns the digest of the message's
\* content under the algorithm t: no unsupported-hash error and no digest
\* of another algorithm.
C15_HashOfRequestedType ==
    (res.op = "Hash" /\ res.err # ErrorDial)
    => /\ res.err = ""
       /\ res.sum = Digest(res.t,
                           server[dirToMailbox(newMailClient(server),
                                               res.o.info.parent)][res.o.seqNum].body)

\* ------------------------------------------------------------------
\* The mail client and its connection
\* ------------------------------------------------------------------

NotConnected == "not connected"

\* the methods of mailclient that talk to the server
Methods ==
    {"RefreshMailboxes", "ListMailboxes", "CreateMailbox", "DeleteMailbox",
     "RenameMailbox", "GetMailboxStatus", "ExpungeMailbox", "Save",
     "SetFlags", "Fetch", "Search"}

\* the command of a call that fails for a reason other than the state of
\* the mailboxes (the transport, a refusal of the server): the select, the
\* command proper, or the refresh that follows it; "" when none fails
Faults == {"", "select", "command", "refresh"}

\* what a method returns: the error, the commands it sent, the server
\* afterwards, whether the mailbox list was read again and whether the
\* client is still connected
Result(err, cmds, srv) ==
    [err |-> err, cmds |-> cmds, srv |-> srv, listed |-> FALSE, conn |-> TRUE]

\* mailclient.RefreshMailboxes, sent after the commands cmds: a failing
\* LIST logs the client out
Refresh(cmds, srv, fails) ==
    IF fails
    THEN [err |-> "failed to get mailboxes", cmds |-> cmds \o <<"LIST", "LOGOUT">>,
          srv |-> srv, listed |-> FALSE, conn |-> FALSE]
    ELSE [err |-> "", cmds |-> cmds \o <<"LIST">>, srv |-> srv,
          listed |-> TRUE, conn |-> TRUE]

\* the methods of mailclient that select the mailbox first, from the
\* select on; cmd is the command that follows and after the server it leaves
Selecting(srv, mbox, fault, cmd, failed, emptyEnds, after) ==
    IF fault = "select" \/ ~Select(srv, mbox)
    THEN Result(ErrorDirNotFound, <<"SELECT">>, srv)
    ELSE IF emptyEnds /\ Len(srv[mbox]) = 0 THEN Result("", <<"SELECT">>, srv)
    ELSE IF fault = "command" \/ ~after.ok THEN Result(failed, <<"SELECT", cmd>>, srv)
    ELSE Result("", <<"SELECT", cmd>>, after.srv)

\* Changing with a fault: the method returns after its command without
\* reading the mailbox list again
ChangingNoRefresh(srv, fault, cmds, failed, done) ==
    IF fault = "command" \/ ~done.ok THEN Result(failed, cmds, srv)
    ELSE Result("", cmds, done.srv)

\* the methods of mailclient that change the mailboxes and read the list
\* again; done is the server's answer to the command cmd
Changing(srv, fault, cmds, failed, done) ==
    IF fault = "command" \/ ~done.ok THEN Result(failed, cmds, srv)
    ELSE Refresh(cmds, done.srv, fault = "refresh")

\* a method of a connected mail client; mbox and to are the server's names
\* of the mailboxes a.mailbox and a.to
MethodOn(name, srv, a, fault, mbox, to) ==
    CASE name = "RefreshMailboxes" -> Refresh(<<>>, srv, fault = "command")
      [] name = "ListMailboxes" -> Result("", <<>>, srv)
      [] name = "CreateMailbox" ->
            Changing(srv, fault, <<"CREATE">>, "failed to create mailbox",
                     ServerCreate(srv, mbox))
      [] name = "RenameMailbox" ->
            Changing(srv, fault, <<"RENAME">>, "failed to rename mailbox",
                     ServerRename(srv, mbox, to))
      [] name = "DeleteMailbox" ->
            IF a.mailbox = <<>> THEN Result("cant remove root", <<>>, srv)
            ELSE IF fault = "select" \/ ~Select(srv, mbox)
            THEN Result(ErrorDirNotFound, <<"SELECT">>, srv)
            ELSE IF Len(srv[mbox]) # 0
            THEN Result("mailbox not empty", <<"SELECT">>, srv)
            ELSE Changing(srv, fault, <<"SELECT", "DELETE">>,
                          "failed to delete mailbox", ServerDelete(srv, mbox))
      [] name = "GetMailboxStatus" ->
            IF a.mailbox = <<>> THEN Result("", <<>>, srv)
            ELSE IF fault = "command" \/ ~Select(srv, mbox)
            THEN Result("failed to get status", <<"STATUS">>, srv)
            ELSE Result("", <<"STATUS">>, srv)
      [] name = "Save" ->
            IF fault = "command" \/ ~Select(srv, mbox)
            THEN Result("failed to save message", <<"APPEND">>, srv)
            ELSE Result("", <<"APPEND">>,
                        ServerAppend(srv, mbox, {}, Stored60.date, Stored60.body,
                                     Stored60.size).srv)
      [] name = "ExpungeMailbox" ->
            Selecting(srv, mbox, fault, "EXPUNGE", "failed to expunge mailbox", FALSE,
                      [ok |-> TRUE,
                       srv |-> IF Select(srv, mbox) THEN ServerExpunge(srv, mbox)
                               ELSE srv])
      [] name = "SetFlags" ->
            Selecting(srv, mbox, fault, "STORE", "failed to set flags", FALSE,
                      IF Select(srv, mbox) THEN ServerStore(srv, mbox, 1, {DeletedFlag})
                      ELSE [ok |-> FALSE, srv |-> srv])
      [] name = "Fetch" ->
            Selecting(srv, mbox, fault, "FETCH", "failed to fetch messages", TRUE,
                      [ok |-> TRUE, srv |-> srv])
      [] OTHER ->
            Selecting(srv, mbox, fault, "SEARCH", "failed to search messages", TRUE,
                      [ok |-> TRUE, srv |-> srv])

\* Method with a fault: the methods do not look at the connection
MethodUnguarded(name, srv, m, a, fault) ==
    MethodOn(name, srv, a, fault, dirToMailbox(m, a.mailbox), dirToMailbox(m, a.to))

\* a method of the mail client m: without a connection it returns the
\* not-connected error and sends nothing
Method(name, srv, m, a, fault) ==
    IF ~m.conn
    THEN [err |-> NotConnected, cmds |-> <<>>, srv |-> srv, listed |-> FALSE,
          conn |-> FALSE]
    ELSE MethodOn(name, srv, a, fault, dirToMailbox(m, a.mailbox),
                  dirToMailbox(m, a.to))

\* the most mail clients made
MaxClients == 2

\* the calls: a fault is given to the methods that send the command it
\* stands for
Calls ==
    {c \in [name : Methods, a : [mailbox : {MailboxA, MailboxB}, to : {MailboxC}],
            fault : Faults] :
        /\ c.fault = "select"
           => c.name \in {"DeleteMailbox", "ExpungeMailbox", "SetFlags", "Fetch", "Search"}
        /\ c.fault = "command" => c.name # "ListMailboxes"
        /\ c.fault = "refresh"
           => c.name \in {"CreateMailbox", "DeleteMailbox", "RenameMailbox"}}

\* arg is the mail client, ret what its last call returned
InitClient ==
    /\ server = [n \in {MailboxA, MailboxB} |->
                    IF n = MailboxA THEN <<Stored60>> ELSE <<>>]
    /\ objs = {}
    /\ res = [op |-> "none"]
    /\ arg = [id |-> 0, conn |-> FALSE, delimiter |-> <<>>, mailboxes |-> {}]
    /\ ret = [method |-> "none"]

\* newMailClient: a new mail client that logs in as l
NewMailClient(l) ==
    /\ arg.id < MaxClients
    /\ arg' = IF login(l).ok THEN [id |-> arg.id + 1] @@ newMailClient(server)
              ELSE [id |-> arg.id + 1, conn |-> FALSE, delimiter |-> <<>>,
                    mailboxes |-> {}]
    /\ ret' = [method |-> "login", login |-> l, err |-> IF login(l).ok THEN "" ELSE ErrorDial,
               cmds |-> login(l).cmds]
    /\ UNCHANGED <<server, objs, res>>

\* mailclient.Logout
Logout ==
    /\ arg.id > 0
    /\ arg' = [arg EXCEPT !.conn = FALSE]
    /\ ret' = [method |-> "Logout", err |-> "",
               cmds |-> IF arg.conn THEN <<"LOGOUT">> ELSE <<>>]
    /\ UNCHANGED <<server, objs, res>>

\* a call of a method, r being what it returns
Returned(name, a, fault, r) ==
    /\ arg' = [id |-> arg.id, conn |-> r.conn,
               delimiter |-> IF r.listed THEN newMailClient(r.srv).delimiter
                             ELSE arg.delimiter,
               mailboxes |-> IF r.listed THEN DOMAIN r.srv
                             ELSE IF arg.conn /\ ~r.conn THEN {}
                             ELSE arg.mailboxes]
    /\ ret' = [method |-> name, a |-> a, fault |-> fault, err |-> r.err,
               cmds |-> r.cmds]
    /\ server' = r.srv
    /\ UNCHANGED <<objs, res>>

\* a call of a method of the mail client
Call(name, a, fault) ==
    /\ arg.id > 0
    /\ name = "Save" => TotalMessages(server) < MaxDirMsgs
    /\ Returned(name, a, fault, Method(name, server, arg, a, fault))

NextClient ==
    \/ \E l \in Logins : NewMailClient(l)
    \/ Logout
    \/ \E c \in Calls : Call(c.name, c.a, c.fault)

SpecClient == InitClient /\ [][NextClient]_vars

\* C16: the not-found errors tell an absent mailbox from another failure:
\* when Search, Fetch, SetFlags or ExpungeMailbox return ErrorDirNotFound,
\* the mailbox is absent from the server; a select that fails for another
\* reason returns a different error.
C16_NotFoundOnlyWhenAbsent ==
    [][(/\ ret' # ret
        /\ ret'.method \in {"Search", "Fetch", "SetFlags", "ExpungeMailbox"}
        /\ ret'.err = ErrorDirNotFound)
       => ~Select(server, dirToMailbox(arg, ret'.a.mailbox))]_vars

\* C20: a mail client without a connection, logged out by Logout or by a
\* failing login or refresh, never becomes connected again, and each of its
\* methods RefreshMailboxes, ListMailboxes, CreateMailbox, DeleteMailbox,
\* RenameMailbox, GetMailboxStatus, Search, Fetch, Save, SetFlags and
\* ExpungeMailbox returns the not-connected error, sends no command and
\* leaves the server as it is.
C20_LoggedOutIsTerminal ==
    [][(arg.id > 0 /\ ~arg.conn /\ arg'.id = arg.id)
       => /\ ~arg'.conn
          /\ ret'.method \in Methods
             => /\ ret'.err = NotConnected
                /\ ret'.cmds = <<>>
                /\ server' = server]_vars

\* C20 witness: a method was called on a logged-out mail client after a
\* mailbox had been renamed
C20_Witness ==
    /\ ret.method \in Methods
    /\ ret.err = NotConnected
    /\ ~arg.conn
    /\ MailboxC \in DOMAIN server

\* ------------------------------------------------------------------
\* The search window
\* ------------------------------------------------------------------

\* the sizes and dates of the descriptors searched for: 2023-11-14
\* 22:13:20 and 2020-03-01 00:00:00 UTC
SearchSizes == {60, 100, 5000}

SearchDates == {1700000000, 1583020800}

\* the sizes of the stored message, around the ends of the window
ProbeSizes(size) == {size - 51, size - 50, size - 49, size, size + 49, size + 50, size + 51}

\* the dates of the stored message, around the ends of the window
ProbeDates(sec) ==
    {AddMonths(sec, -1) - SecondsPerDay, AddMonths(sec, -1), sec,
     AddMonths(sec, 1), AddMonths(sec, 1) + SecondsPerDay}

\* the search of findObject for the descriptor info in the mailbox A of
\* the server srv
SearchDescriptor(info, srv) ==
    /\ server' = srv
    /\ ret' = [op |-> "Search", sec |-> NtoI(info.date.sec), size |-> NtoI(info.size),
               msg |-> srv[MailboxA][1]]
              @@ SearchIn(srv, dirToMailbox(newMailClient(srv), info.parent),
                          searchCriteriaFromDescriptor(info))
    /\ UNCHANGED <<objs, res, arg>>

\* the server holds one message in A, and a descriptor is searched for
NextSearch ==
    \E sec \in SearchDates, size \in SearchSizes :
       \E msgSec \in ProbeDates(sec), msgSize \in ProbeSizes(size) :
          SearchDescriptor(newDescriptor(MailboxA, <<>>, Time(ItoN(sec), 0),
                                         MD5("mail60"), ItoN(size), {}),
                           [n \in {MailboxA} |->
                               <<[date |-> msgSec, body |-> "mail60",
                                  size |-> msgSize, flags |-> {}]>>])

SpecSearch == Init /\ [][NextSearch]_vars

\* C17: the search for a descriptor of size t returns a message of size
\* t-50 and a message of size t+50, and does not return a message of size
\* t-51 (the message bearing the date of the descriptor).
C17_SizeWindowInclusive ==
    (ret.op = "Search" /\ ret.msg.date = ret.sec)
    => /\ ret.msg.size \in {ret.size - 50, ret.size + 50} => 1 \in ret.ids
       /\ ret.msg.size = ret.size - 51 => 1 \notin ret.ids

\* C18: the search for a descriptor dated d returns a message dated d
\* minus one month and a message dated d plus one month, and does not
\* return a message dated one day before the first or one day after the
\* second (the message having the size of the descriptor).
C18_DateWindowInclusive ==
    (ret.op = "Search" /\ ret.msg.size = ret.size)
    => /\ ret.msg.date \in {AddMonths(ret.sec, -1), AddMonths(ret.sec, 1)}
          => 1 \in ret.ids
       /\ ret.msg.date \in {AddMonths(ret.sec, -1) - SecondsPerDay,
                            AddMonths(ret.sec, 1) + SecondsPerDay}
          => 1 \notin ret.ids

\* ------------------------------------------------------------------
\* The connections of the operations
\* ------------------------------------------------------------------

\* client, err := newMailClient(f); if err != nil { return }; defer
\* client.Logout(); then the calls of the operation, r being what they
\* return: the connection events of the operation's mail client. The
\* deferred Logout sends LOGOUT when the client is still connected
Session(l, r) ==
    IF ~login(l).ok THEN login(l).cmds
    ELSE login(l).cmds \o r.cmds \o (IF r.conn THEN <<"LOGOUT">> ELSE <<>>)

\* the operations that make one mail client and whose calls do not read
\* the mailbox list again
PlainOperations == {"List", "NewObject", "Open", "Remove"}

\* the connection events of an operation. l is the login of its mail
\* client; in.forced tells that a refresh inside CreateMailbox fails;
\* in.nested tells that the operation gets as far as its second part: Put
\* to findObject, which makes its own mail client with the login in.l2
\* while the first is connected, and Hash to Open, the checksum not being
\* in o.hashes
Connections(op, in) ==
    CASE op \in PlainOperations -> Session(in.l, Result("", <<>>, server))
      [] op = "Mkdir" -> Session(in.l, Refresh(<<"CREATE">>, server, in.forced))
      [] op = "Hash" ->
            IF in.nested THEN Session(in.l, Result("", <<>>, server)) ELSE <<>>
      [] OTHER ->
            Session(in.l,
                    IF in.forced THEN Refresh(<<"CREATE">>, server, TRUE)
                    ELSE IF in.nested
                    THEN Result("", <<"APPEND">>
                                    \o Session(in.l2, Result("", <<>>, server)),
                                server)
                    ELSE Result("failed to save message", <<"APPEND">>, server))

\* a call of List, NewObject, Put, Mkdir, Open, Remove or Hash, as far as
\* its connections go
Operation(op, in) ==
    /\ res' = [op |-> op, in |-> in, cmds |-> Connections(op, in)]
    /\ UNCHANGED <<server, objs, arg, ret>>

\* the logins and the course of the operations; the second login only
\* matters to Put
Courses ==
    {in \in [l : Logins, l2 : Logins, forced : BOOLEAN, nested : BOOLEAN] :
        in.l2.security = in.l.security}

NextConn ==
    \/ \E op \in PlainOperations \cup {"Mkdir", "Hash"},
          in \in {c \in Courses : c.l2 = c.l} :
          Operation(op, in)
    \/ \E in \in Courses : Operation("Put", in)
    \/ \E l \in Logins : Rmdir(<<>>, MailboxB, l)
    \/ \E in \in [sameType : BOOLEAN, srcRoot : {<<>>}, srcRemote : {MailboxB},
                    root : {<<>>}, dstRemote : {MailboxC}, login : Logins] :
          DirMove(in)

SpecConn == Init /\ [][NextConn]_vars

\* the connections open after the events cmds
RECURSIVE OpenAfter(_)
OpenAfter(cmds) ==
    IF cmds = <<>> THEN 0
    ELSE OpenAfter(Tail(cmds))
         + (IF cmds[1] = "DIAL" THEN 1 ELSE IF cmds[1] = "LOGOUT" THEN -1 ELSE 0)

\* C19: when List, NewObject, Put, Mkdir, Rmdir, DirMove, Open, Remove or
\* Hash returns, with success or with an error, a failing dial, StartTLS,
\* login or refresh included, every connection the call opened has been
\* logged out.
C19_NoConnectionLeftOpen ==
    res.op # "none" => OpenAfter(res.cmds) = 0

\* C19 witness: Put returned after the login of findObject had failed at
\* StartTLS while the mail client of Put was connected
C19_Witness ==
    /\ res.op = "Put"
    /\ res.in.l.fail = ""
    /\ res.in.l2.fail = "starttls"
    /\ res.in.nested
    /\ ~res.in.forced
    /\ Len(res.cmds) > 8

\* ------------------------------------------------------------------
\* Objects that outlive their listing
\* ------------------------------------------------------------------

StoredHello == [date |-> 100, body |-> "hello", size |-> 5, flags |-> {}]

StoredNote == [date |-> 100, body |-> "note", size |-> 10, flags |-> {}]

\* Object.Open as an operation of the caller
OpenObject(o) ==
    /\ res' = [op |-> "Open", o |-> o] @@ Open(server, o)
    /\ UNCHANGED <<server, objs, arg, ret>>

\* another connection removes the message with the sequence number k from
\* the mailbox mbox (Object.Remove there: STORE +FLAGS \Deleted, EXPUNGE);
\* the caller's Objects are not told
ExpungedElsewhere(mbox, k) ==
    /\ mbox \in DOMAIN server
    /\ k \in 1..Len(server[mbox])
    /\ server' = RemoveIn(server, mbox, k).srv
    /\ UNCHANGED <<objs, res, arg, ret>>

InitStale ==
    /\ server = [n \in {MailboxA, MailboxB} |->
                    IF n = MailboxA THEN <<Stored60, StoredHello, StoredNote>>
                    ELSE <<>>]
    /\ objs = {}
    /\ res = [op |-> "none"]
    /\ arg = <<>>
    /\ ret = [op |-> "none"]

NextStale ==
    \/ \E root \in Roots, dir \in {<<>>, MailboxA} : List(root, dir, 0)
    \/ \E o \in objs : OpenObject(o)
    \/ \E k \in 1..3 : ExpungedElsewhere(MailboxA, k)
    \/ \E op \in {"List", "Open"} : Unreachable(op)

SpecStale == InitStale /\ [][NextStale]_vars

\* the listed Objects with a lower sequence number than o whose message is
\* no longer in the mailbox msgs
LowerGone(o, msgs) ==
    {p \in objs : /\ p.seqNum < o.seqNum
                  /\ \A k \in 1..Len(msgs) : MD5(msgs[k].body) # p.info.md5sum}

\* C21: Open fetches by the sequence number of the listing and compares
\* nothing: when a message listed with a lower sequence number has been
\* expunged since, Open on the listed object fails when the number is now
\* above the message count and otherwise returns, without error, the body
\* of another message than the listed one (the step compared is the one
\* in which Open acts).
C21_StaleSequenceNumber ==
    [][\A o \in objs :
          (/\ server' = server
           /\ res' # res
           /\ res'.op = "Open"
           /\ res'.err # ErrorDial
           /\ res'.o = o
           /\ LowerGone(o, server[dirToMailbox(newMailClient(server), OpenMailbox(o))]) # {})
          => IF o.seqNum > Len(server[dirToMailbox(newMailClient(server), OpenMailbox(o))])
             THEN res'.err # ""
             ELSE /\ res'.err = ""
                  /\ res'.body = server[dirToMailbox(newMailClient(server),
                                                     OpenMailbox(o))][o.seqNum].body
                  /\ MD5(res'.body) # o.info.md5sum]_vars

\* Open returned the body of another message than the one listed
C21_Witness ==
    /\ res.op = "Open"
    /\ res.err = ""
    /\ res.o \in objs
    /\ MD5(res.body) # res.o.info.md5sum
    /\ LowerGone(res.o, server[MailboxA]) # {}

\* C22: Rmdir of a mailbox that holds messages, and Rmdir of a mailbox
\* that holds no message but has child mailboxes, both return an error and
\* leave the mailbox and the rest of the server as they were.
C22_RmdirNotEmptyCoversChildren ==
    [][(/\ res'.op = "Rmdir"
        /\ res'.err # ErrorDial
        /\ mailboxExists(server, PathJoin(res'.root, res'.dir))
        /\ \/ server[dirToMailbox(newMailClient(server),
                                  PathJoin(res'.root, res'.dir))] # <<>>
           \/ Children(server, dirToMailbox(newMailClient(server),
                                            PathJoin(res'.root, res'.dir))) # {})
       => /\ res'.err # ""
          /\ server' = server]_vars

\* ------------------------------------------------------------------
\* The destination of an archive
\* ------------------------------------------------------------------

ErrorIsDir == "is a directory not a file"

\* an error value: its text and the sentinel errors.Is finds in it
Err(text, is) == [text |-> text, is |-> is]

Nil == Err("", "")

\* fs.Fatalf: the command logs the message and the process exits, the call
\* does not return
Fatal == Err("Failed to create file system", "exit")

\* an fs.Fs: Name(), Features().IsLocal, Root()
FsOf(name, isLocal, root) == [name |-> name, isLocal |-> isLocal, root |-> root]

\* getRemoteFromFs(src, dstFile)
getRemoteFromFs(src, dstFile) ==
    IF src.isLocal THEN PathJoin(src.root, dstFile)
    ELSE src.name \o <<":">> \o PathJoin(src.root, dstFile)

\* dst.NewObject(ctx, remote) over the files and directories of world,
\* which are named as getRemoteFromFs names them
NewObjectIn(world, f, remote) ==
    IF getRemoteFromFs(f, remote) \in world.files THEN ""
    ELSE IF getRemoteFromFs(f, remote) \in world.dirs THEN ErrorIsDir
    ELSE ErrorObjectNotFound

RemoteName == <<"r">>

\* path.Dir of a path inside a remote, "" at the top of the remote
DirInside(p) == IF PathDir(p) = <<".">> THEN <<>> ELSE PathDir(p)

\* cmd.NewFsFile from the parsed remote on: an Fs of the parent and the
\* leaf when the path is a file, an Fs of the path and "" otherwise
NewFsFileAt(world, name, isLocal, p) ==
    IF getRemoteFromFs(FsOf(name, isLocal, p), <<>>) \in world.files
    THEN [fs |-> FsOf(name, isLocal, IF isLocal THEN PathDir(p) ELSE DirInside(p)),
          file |-> PathBase(p)]
    ELSE [fs |-> FsOf(name, isLocal, p), file |-> <<>>]

\* cmd.NewFsFile(remote): "name:path" is a path of the remote name, any
\* other string a local path; the empty string is no path and is fatal
NewFsFile(world, remote) ==
    IF remote = <<>> THEN [fatal |-> TRUE]
    ELSE [fatal |-> FALSE]
         @@ (IF HasPrefix(remote, RemoteName \o <<":">>)
             THEN NewFsFileAt(world, RemoteName, FALSE,
                              StripTrailingSlashes(TrimPrefix(remote,
                                                              RemoteName \o <<":">>)))
             ELSE NewFsFileAt(world, <<"local">>, TRUE, PathClean(remote)))

\* CheckValidDestination from the NewObject of the parent on
CheckParent(sp, nf, second) ==
    IF second = ""
    THEN [dst |-> nf.fs, dstFile |-> sp.file, err |-> Err("can't create, is a file", "")]
    ELSE IF second = ErrorIsDir
    THEN [dst |-> nf.fs, dstFile |-> sp.file, err |-> Nil]
    ELSE [dst |-> nf.fs, dstFile |-> sp.file, err |-> Err("invalid parent dir", second)]

\* CheckValidDestination from the path.Split of the destination on
CheckSplit(world, dst, sp, nf) ==
    IF nf.fatal THEN [dst |-> dst, dstFile |-> sp.file, err |-> Fatal]
    ELSE CheckParent(sp, nf, NewObjectIn(world, nf.fs, nf.file))

\* CheckValidDestination from the first NewObject on
CheckFirst(world, dst, dstFile, first) ==
    IF first = "" THEN [dst |-> dst, dstFile |-> dstFile, err |-> Nil]
    ELSE IF first = ErrorIsDir
    THEN [dst |-> dst, dstFile |-> dstFile, err |-> Err("invalid", first)]
    ELSE IF first # ErrorObjectNotFound
    THEN [dst |-> dst, dstFile |-> <<>>, err |-> Err("is invalid", first)]
    ELSE CheckSplit(world, dst, PathSplit(getRemoteFromFs(dst, dstFile)),
                    NewFsFile(world, PathSplit(getRemoteFromFs(dst, dstFile)).dir))

\* CheckValidDestination(ctx, dst, dstFile)
CheckValidDestination(world, dst, dstFile) ==
    CheckFirst(world, dst, dstFile, NewObjectIn(world, dst, dstFile))

\* the local trees below /: a test directory /t that may hold a file f and
\* a directory d with a file f
LocalTrees ==
    {[dirs |-> {<<"/">>}, files |-> {}]}
    \cup {[dirs |-> {<<"/">>, <<"/", "t">>}, files |-> fs] :
            fs \in SUBSET {<<"/", "t", "/", "f">>}}
    \cup {[dirs |-> {<<"/">>, <<"/", "t">>, <<"/", "t", "/", "d">>}, files |-> fs] :
            fs \in SUBSET {<<"/", "t", "/", "f">>, <<"/", "t", "/", "d", "/", "f">>}}

\* the trees of the remote r
RemoteTrees ==
    {[dirs |-> {<<"r", ":">>}, files |-> fs] : fs \in SUBSET {<<"r", ":", "f">>}}
    \cup {[dirs |-> {<<"r", ":">>, <<"r", ":", "d">>}, files |-> fs] :
            fs \in SUBSET {<<"r", ":", "f">>, <<"r", ":", "d", "/", "f">>}}

Worlds ==
    {[dirs |-> l.dirs \cup r.dirs, files |-> l.files \cup r.files] :
        l \in LocalTrees, r \in RemoteTrees}

Destinations ==
    {FsOf(<<"local">>, TRUE, <<"/", "t">>), FsOf(<<"local">>, TRUE, <<"/", "t", "/", "d">>),
     FsOf(RemoteName, FALSE, <<>>), FsOf(RemoteName, FALSE, <<"d">>)}

DestinationFiles ==
    {<<>>, <<"f">>, <<"g">>, <<"d">>, <<"d", "/", "f">>, <<"d", "/", "g">>,
     <<"x", "/", "g">>, <<"f", "/", "g">>}

InitArchive ==
    /\ InitServerIdle
    /\ arg \in Worlds
    /\ ret = [op |-> "none"]

CallCheckValidDestination(dst, dstFile) ==
    /\ ret.op = "none"
    /\ ret' = [op |-> "CheckValidDestination", dst |-> dst, dstFile |-> dstFile,
               out |-> CheckValidDestination(arg, dst, dstFile)]
    /\ UNCHANGED <<server, objs, res, arg>>

NextArchive ==
    \E dst \in Destinations, dstFile \in DestinationFiles :
        CallCheckValidDestination(dst, dstFile)

SpecArchive == InitArchive /\ [][NextArchive]_vars

\* the name, as getRemoteFromFs gives names, of the directory that holds
\* the destination
ParentOf(dst, dstFile) ==
    IF dst.isLocal THEN PathDir(PathJoin(dst.root, dstFile))
    ELSE dst.name \o <<":">> \o DirInside(PathJoin(dst.root, dstFile))

\* C23: CheckValidDestination(dst, dstFile) returns dstFile and no error
\* when the destination is an existing file, and when it does not exist and
\* its parent directory does; it returns an error wrapping fs.ErrorIsDir
\* when the destination is a directory, and one wrapping
\* fs.ErrorObjectNotFound when the parent directory does not exist.
C23_CheckValidDestination ==
    ret.op = "CheckValidDestination" =>
        /\ getRemoteFromFs(ret.dst, ret.dstFile) \in arg.files
              => (ret.out.dstFile = ret.dstFile /\ ret.out.err = Nil)
        /\ (/\ getRemoteFromFs(ret.dst, ret.dstFile) \notin arg.files \cup arg.dirs
            /\ ParentOf(ret.dst, ret.dstFile) \in arg.dirs)
              => (ret.out.dstFile = ret.dstFile /\ ret.out.err = Nil)
        /\ getRemoteFromFs(ret.dst, ret.dstFile) \in arg.dirs
              => ret.out.err.is = ErrorIsDir
        /\ (/\ getRemoteFromFs(ret.dst, ret.dstFile) \notin arg.files \cup arg.dirs
            /\ ParentOf(ret.dst, ret.dstFile) \notin arg.files \cup arg.dirs)
              => ret.out.err.is = ErrorObjectNotFound

\* C24: for every size s >= 0 of an uploaded message, sizes below 50 such
\* as the 5 bytes of "hello" included, the bounds uint32(s-50) and
\* uint32(s+50) of the search admit a message of size s, and the search of
\* Put's re-resolve in the mailbox of the append returns the message that
\* was just stored.
C24_SmallSizeAdmitted ==
    (/\ res.op = "Put"
     /\ res.err # ErrorDial
     /\ res.appended)
    => /\ \/ searchCriteriaFromDescriptor(res.info).Larger = U32Zero
          \/ U32Less(searchCriteriaFromDescriptor(res.info).Larger,
                     U32(NtoI(res.info.size)))
       /\ U32Less(U32(NtoI(res.info.size)),
                  searchCriteriaFromDescriptor(res.info).Smaller)
       /\ Len(server[dirToMailbox(newMailClient(server), res.mailbox)])
            \in ServerSearch(server, dirToMailbox(newMailClient(server), res.mailbox),
                             searchCriteriaFromDescriptor(res.info))

\* the mailbox, by its server name, that Put of src under root appends to
PutMailbox(root, src) ==
    dirToMailbox(newMailClient(server),
                 PathJoin(PutDescriptor(root, src).info.parent, PathDir(src.remote)))

C26_CacheFollowsMutation ==
    (/\ ret.method \in {"CreateMailbox", "DeleteMailbox", "RenameMailbox"}
     /\ ret.err = "")
    => /\ ret.cmds # <<>>
       /\ ret.cmds[Len(ret.cmds)] = "LIST"
       /\ arg.mailboxes = DOMAIN server
       /\ ret.method = "CreateMailbox"
          => /\ HasMailbox(arg, ret.a.mailbox)
             /\ ret.a.mailbox \in ListMailboxes(arg, <<>>)
       /\ ret.method = "DeleteMailbox"
          => /\ ~HasMailbox(arg, ret.a.mailbox)
             /\ ret.a.mailbox \notin ListMailboxes(arg, <<>>)
       /\ ret.method = "RenameMailbox"
          => /\ HasMailbox(arg, ret.a.to)
             /\ ret.a.to \in ListMailboxes(arg, <<>>)
             /\ ~HasMailbox(arg, ret.a.mailbox)
             /\ ret.a.mailbox \notin ListMailboxes(arg, <<>>)

\* C26 witness: a mailbox that had been deleted was created again, and the
\* client finds it
C26_Witness ==
    /\ ret.method = "CreateMailbox"
    /\ ret.err = ""
    /\ ret.cmds = <<"CREATE", "LIST">>
    /\ HasMailbox(arg, ret.a.mailbox)
    /\ arg.conn

\* ------------------------------------------------------------------
\* The reader task and the consumer loop of Fetch and RefreshMailboxes
\* ------------------------------------------------------------------

\* messages := make(chan *imap.Message, 10); mailboxes likewise
ChanCap == 10

\* done := make(chan error, 1)
DoneCap == 1

\* the most items the server answers a command with
MaxItems == 12

\* the two methods that read the answer of a command through a channel fed
\* by a task of their own
Readers == {"Fetch", "RefreshMailboxes"}

\* in this part arg is the state of one call of such a method, right after
\* its "go func()": the items the server has yet to answer with, the items
\* the reader task has put on the channel so far, the channel, whether it
\* is closed, where the reader task is and the error of its command, the
\* done channel, where the caller is and the items its loop has handled;
\* ret is what the method returns
Started(kind, n) ==
    [kind |-> kind, items |-> [k \in 1..n |-> k], sent |-> <<>>, ch |-> <<>>,
     closed |-> FALSE, reader |-> "command", readerErr |-> "", done |-> <<>>,
     caller |-> "range", handled |-> <<>>]

InitFetch ==
    /\ InitServerIdle
    /\ arg \in {Started(kind, n) : kind \in Readers, n \in 0..MaxItems}
    /\ ret = [op |-> "none"]

\* the command of the reader task (conn.Fetch, conn.List) puts the next
\* item of the answer on the channel, waiting while the channel is full
ReaderSends ==
    /\ arg.reader = "command"
    /\ arg.items # <<>>
    /\ Len(arg.ch) < ChanCap
    /\ arg' = [arg EXCEPT !.items = Tail(@), !.sent = Append(@, Head(arg.items)),
                          !.ch = Append(@, Head(arg.items))]
    /\ UNCHANGED <<server, objs, res, ret>>

\* the command ends with a fault: it closes the channel as it succeeds, and
\* goes on to the done channel without closing
ReaderEndsOpen(err) ==
    /\ arg.reader = "command"
    /\ err = "" => arg.items = <<>>
    /\ arg' = [arg EXCEPT !.reader = "ended", !.readerErr = err]
    /\ UNCHANGED <<server, objs, res, ret>>

\* the command ends, with success after the last item of the answer or
\* with the error err at any point, and closes the channel
ReaderEnds(err) ==
    /\ arg.reader = "command"
    /\ err = "" => arg.items = <<>>
    /\ arg' = [arg EXCEPT !.closed = TRUE, !.reader = "ended", !.readerErr = err]
    /\ UNCHANGED <<server, objs, res, ret>>

\* done <- the error of the command
ReaderSignals ==
    /\ arg.reader = "ended"
    /\ Len(arg.done) < DoneCap
    /\ arg' = [arg EXCEPT !.done = Append(@, arg.readerErr), !.reader = "exit"]
    /\ UNCHANGED <<server, objs, res, ret>>

\* for msg := range messages { action(msg) }: one round of the loop
CallerHandles ==
    /\ arg.caller = "range"
    /\ arg.ch # <<>>
    /\ arg' = [arg EXCEPT !.ch = Tail(@), !.handled = Append(@, Head(arg.ch))]
    /\ UNCHANGED <<server, objs, res, ret>>

\* the loop with a fault: it is left as soon as the done channel holds the
\* error of the command
CallerLeavesOnDone ==
    /\ arg.caller = "range"
    /\ arg.done # <<>>
    /\ arg' = [arg EXCEPT !.caller = "done"]
    /\ UNCHANGED <<server, objs, res, ret>>

\* the loop ends when the channel is closed and empty
CallerLeaves ==
    /\ arg.caller = "range"
    /\ arg.ch = <<>>
    /\ arg.closed
    /\ arg' = [arg EXCEPT !.caller = "done"]
    /\ UNCHANGED <<server, objs, res, ret>>

\* if err := <-done; err != nil { return the wrapped error }; return nil
CallerReturns ==
    /\ arg.caller = "done"
    /\ arg.done # <<>>
    /\ arg' = [arg EXCEPT !.done = Tail(@), !.caller = "returned"]
    /\ ret' = [op |-> arg.kind,
               err |-> IF Head(arg.done) = "" THEN ""
                       ELSE IF arg.kind = "Fetch" THEN "failed to fetch messages"
                       ELSE "failed to get mailboxes",
               cause |-> Head(arg.done)]
    /\ UNCHANGED <<server, objs, res>>

ReaderTask == (\E err \in {"", "connection closed"} : ReaderEnds(err)) \/ ReaderSends \/ ReaderSignals

CallerLoop == CallerHandles \/ CallerLeaves \/ CallerReturns

NextFetch == ReaderTask \/ CallerLoop

SpecFetch == InitFetch /\ [][NextFetch]_vars

\* the scheduler runs the reader task and the caller whenever they can
\* take a step
SpecFetchFair == SpecFetch /\ WF_vars(ReaderTask) /\ WF_vars(CallerLoop)

\* C27: in Fetch (and in RefreshMailboxes) the items handled by the loop,
\* followed by those waiting in the channel, are at every moment the items
\* the reader task has put on the channel, in that order and each once; when
\* the method returns every one of them has been handled, the channel is
\* empty, and the error returned is the error of the reader task's command
\* (none when it had none).
C27_FetchDeliversAll ==
    /\ arg.handled \o arg.ch = arg.sent
    /\ ret.op # "none"
       => /\ arg.caller = "returned"
          /\ arg.handled = arg.sent
          /\ arg.ch = <<>>
          /\ ret.cause = arg.readerErr
          /\ (ret.err = "") = (arg.readerErr = "")

\* C27 witness: Fetch returned the error of a command that had failed
\* after more items than the channel holds, all of them handled
C27_Witness ==
    /\ ret.op = "Fetch"
    /\ ret.err = "failed to fetch messages"
    /\ Len(arg.handled) > ChanCap
    /\ arg.items # <<>>

\* C28: every call of Fetch and of RefreshMailboxes returns, and its
\* reader task ends, whatever the number of items and whether the command
\* succeeds or fails.
C28_FetchTerminates == <>(arg.caller = "returned" /\ arg.reader = "exit")

\* C28 witness: a call returned after the reader task had waited for room
\* in the full channel
C28_Witness ==
    /\ arg.caller = "returned"
    /\ arg.reader = "exit"
    /\ Len(arg.sent) > ChanCap
    /\ ret.err = ""

\* ------------------------------------------------------------------
\* The children of a path in the folder list
\* ------------------------------------------------------------------

\* the loop of getMatches over the rest of the list, root being trimmed
\* and result the values found so far
RECURSIVE getMatchesFrom(_, _, _)
getMatchesFrom(root, list, result) ==
    IF list = <<>> THEN result
    ELSE getMatchesFrom(root, Tail(list),
                        IF /\ matchValue(root, TrimSlash(Head(list))) # <<>>
                           /\ \A k \in DOMAIN result :
                                 result[k] # matchValue(root, TrimSlash(Head(list)))
                        THEN Append(result, matchValue(root, TrimSlash(Head(list))))
                        ELSE result)

\* getMatches(root, list), the result as the slice it is
getMatchesList(root0, list) == getMatchesFrom(TrimSlash(root0), list, <<>>)

\* mailclient.ListMailboxes(dir) of the client m whose m.mailboxes is the
\* slice mailboxes
ListMailboxesOf(m, mailboxes, dir) ==
    getMatchesList(dir, [k \in DOMAIN mailboxes |-> mailboxToDir(m, mailboxes[k])])

\* strings.TrimSpace(s) == ""
IsBlank(s) == \A k \in DOMAIN s : s[k] = " "

\* matchesRoot from the two splits on
matchesRootOf(a, b) ==
    IF IsBlank(a[1]) /\ Len(b) = 1 THEN [ok |-> TRUE, name |-> b[1]]
    ELSE IF Len(b) < Len(a) THEN [ok |-> FALSE, name |-> <<>>]
    ELSE IF Sub(b, 1, Len(a)) = a /\ Len(b) - Len(a) = 1
    THEN [ok |-> TRUE, name |-> b[Len(a) + 1]]
    ELSE [ok |-> FALSE, name |-> <<>>]

\* matchesRoot(root, value) of the earlier generation of the backend
matchesRoot(root, value) ==
    matchesRootOf(SplitSlash(TrimSlash(root)), SplitSlash(TrimSlash(value)))

\* mailclient.ListMailboxes(dir) of the earlier generation
RECURSIVE ListMailboxesByRoot(_, _, _)
ListMailboxesByRoot(m, mailboxes, dir) ==
    IF mailboxes = <<>> THEN <<>>
    ELSE (IF matchesRoot(dir, mailboxToDir(m, Head(mailboxes))).ok
          THEN <<matchesRoot(dir, mailboxToDir(m, Head(mailboxes))).name>>
          ELSE <<>>)
         \o ListMailboxesByRoot(m, Tail(mailboxes), dir)

\* the folders a server may list, in the order it lists them
FolderOrder ==
    <<<<"A", ".", "B", ".", "C">>, <<"A">>, <<"B">>, <<"A", ".", "B">>, <<"B", ".", "A">>>>

\* the elements of seq that are in set, in the order of seq
RECURSIVE Selected(_, _)
Selected(seq, set) ==
    IF seq = <<>> THEN <<>>
    ELSE (IF Head(seq) \in set THEN <<Head(seq)>> ELSE <<>>) \o Selected(Tail(seq), set)

FolderLists == {Selected(FolderOrder, s) : s \in SUBSET {FolderOrder[k] : k \in DOMAIN FolderOrder}}

UnderPaths == {<<>>, <<"A">>, <<"B">>, <<"A", "/", "B">>, <<"C">>}

\* in this part arg is the folder list of a connected client and the path
\* asked for, ret the children both generations of ListMailboxes find
InitChildren ==
    /\ InitServerIdle
    /\ arg \in [mailboxes : FolderLists, dir : UnderPaths]
    /\ ret = [op |-> "none"]

CallListMailboxes ==
    /\ ret.op = "none"
    /\ ret' = [op |-> "ListMailboxes",
               out |-> ListMailboxesOf([delimiter |-> <<Delimiter>>], arg.mailboxes, arg.dir),
               byRoot |-> ListMailboxesByRoot([delimiter |-> <<Delimiter>>],
                                              arg.mailboxes, arg.dir)]
    /\ UNCHANGED <<server, objs, res, arg>>

NextChildren == CallListMailboxes

SpecChildren == InitChildren /\ [][NextChildren]_vars

\* the elements of a sequence
Range(seq) == {seq[k] : k \in DOMAIN seq}

\* the folders of the list, as paths
FolderPaths == {ReplaceAll(arg.mailboxes[k], Delimiter, <<"/">>) : k \in DOMAIN arg.mailboxes}

\* the immediate children of the path dir among the folders: what is left
\* of a folder after the prefix dir/ (the whole folder when dir is empty),
\* when it holds no further separator
ImmediateChildren(dir) ==
    {TrimPrefix(f, IF dir = <<>> THEN <<>> ELSE dir \o <<"/">>) :
        f \in {g \in FolderPaths :
                 /\ dir = <<>> \/ HasPrefix(g, dir \o <<"/">>)
                 /\ ~Contains(TrimPrefix(g, IF dir = <<>> THEN <<>> ELSE dir \o <<"/">>), "/")}}

\* C29: ListMailboxes(underPath) returns exactly the cached folders that
\* are immediate children of underPath, each once and as one segment;
\* underPath itself is not returned and a folder nested more than one level
\* below underPath adds no entry.
C29_ListMailboxesImmediateChildren ==
    ret.op = "ListMailboxes"
    => /\ Range(ret.out) = ImmediateChildren(arg.dir)
       /\ Cardinality(Range(ret.out)) = Len(ret.out)
       /\ \A k \in DOMAIN ret.out : ~Contains(ret.out[k], "/")
       /\ arg.dir \notin Range(ret.out)

\* the number of segments of a path
Segments(p) == Len(SplitSlash(p))

\* C30: the prefix-strip of getMatches and the positional comparison of
\* matchesRoot find the same set of child names for every folder list and
\* every underPath, the case of an empty underPath with a folder of exactly
\* one segment in the list set aside.
C30_SameChildren ==
    (/\ ret.op = "ListMailboxes"
     /\ ~(arg.dir = <<>> /\ \E f \in FolderPaths : Segments(f) = 1))
    => Range(ret.out) = Range(ret.byRoot)

\* ------------------------------------------------------------------
\* The order of connecting and parsing in fetchEntries
\* ------------------------------------------------------------------

\* the commands fetchEntries sends once the path is parsed: none when it
\* returns before ListMailboxes (which reads the cached list) or for the
\* root; else STATUS by GetMailboxStatus, SELECT and SEARCH by Search when
\* a file was asked for and the mailbox holds messages, SELECT and FETCH by
\* Fetch when there is something to fetch
fetchCommands(srv, client, parent, file) ==
    IF parent = <<>> THEN <<>>
    ELSE IF ~HasMailbox(client, parent) THEN <<>>
    ELSE IF file # <<>> /\ searchCriteriaFromName(parent, file).err # "" THEN <<>>
    ELSE IF Len(srv[dirToMailbox(client, parent)]) = 0 THEN <<"STATUS">>
    ELSE IF file = <<>> THEN <<"STATUS", "SELECT", "FETCH">>
    ELSE IF SearchIn(srv, dirToMailbox(client, parent),
                     searchCriteriaFromName(parent, file).criteria).ids = {}
    THEN <<"STATUS", "SELECT", "SEARCH">>
    ELSE <<"STATUS", "SELECT", "SEARCH", "SELECT", "FETCH">>

\* the steps of fetchEntries from regexToMap to the deferred Logout
fetchParsedSteps(srv, client, groups) ==
    <<"regexToMap">>
    \o fetchCommands(srv, client,
                     IF groups.file = <<>> THEN groups.dir ELSE groups.parent,
                     groups.file)
    \o <<"LOGOUT">>

\* fetchEntries as the steps it takes, in their order, and what it
\* returns: newMailClient (whose login dials the server) comes first and
\* ends the call when it fails; regexToMap on the joined path follows on
\* the connected client
fetchSteps(srv, root, dir, l) ==
    IF ~login(l).ok
    THEN [steps |-> <<"newMailClient">> \o login(l).cmds, err |-> ErrorDial]
    ELSE [steps |-> <<"newMailClient">> \o login(l).cmds
                    \o fetchParsedSteps(srv, newMailClient(srv),
                                        remoteRegex(PathJoin(root, dir)))]
         @@ fetchEntries(srv, root, dir, 0)

\* the directories listed: the root, a mailbox with messages, an empty
\* one, an absent one, the name of a stored message and of none, a plain
\* name inside a mailbox
SplitDirs ==
    {<<>>, MailboxA, MailboxB, MailboxC, Name60, PlainName,
     MailboxA \o <<"/">> \o Name60, MailboxB \o <<"/">> \o Name60}

\* Fs.List(dir) as far as the order of its steps goes; in this part ret
\* holds the call and its steps
ListSteps(in) ==
    /\ ret' = [op |-> "List", root |-> in.root, dir |-> in.dir, l |-> in.l]
              @@ fetchSteps(server, in.root, in.dir, in.l)
    /\ UNCHANGED <<server, objs, res, arg>>

NextSplit ==
    \E in \in [root : Roots, dir : SplitDirs, l : Logins] : ListSteps(in)

SpecSplit == InitStale /\ [][NextSplit]_vars

\* the index of the first step e in steps (0: none)
RECURSIVE StepIndex(_, _, _)
StepIndex(steps, e, k) ==
    IF k > Len(steps) THEN 0
    ELSE IF steps[k] = e THEN k
    ELSE StepIndex(steps, e, k + 1)

\* the joined path names a file directly under the root
FileUnderRoot(root, dir) ==
    /\ remoteRegex(PathJoin(root, dir)).file # <<>>
    /\ remoteRegex(PathJoin(root, dir)).parent = <<>>

\* C31: in List the path is split into parent mailbox and file before any
\* connection is opened: the parse is a step of every call and no step of
\* the mail client comes before it; and a file directly under the root is
\* answered with the empty result by the parse alone, without a mail
\* client, a dial, a login or a command.
C31_SplitBeforeConnection ==
    ret.op = "List"
    => /\ StepIndex(ret.steps, "regexToMap", 1) = 1
       /\ FileUnderRoot(ret.root, ret.dir)
          => /\ ret.steps = <<"regexToMap">>
             /\ ret.err = ""
             /\ ret.entries = {}

\* ------------------------------------------------------------------
\* The date of a descriptor
\* ------------------------------------------------------------------

\* a time.Time with a location other than UTC
TimeIn(sec, nsec, loc) == [sec |-> sec, nsec |-> nsec, loc |-> loc]

\* the modification times of source objects: whole seconds or not, in UTC
\* or in the local zone
ModTimes ==
    {Time(s, n) : s \in {<<1, 0, 0>>, <<2, 0, 0>>}, n \in {0, 5}}
    \cup {TimeIn(s, n, "Local") : s \in {<<1, 0, 0>>, <<2, 0, 0>>}, n \in {0, 5}}

\* the message the server holds after APPEND of body with the date t: the
\* date-time of the command carries whole seconds
Appended(body, t) ==
    [body |-> body, date |-> NtoI(t.sec), size |-> BodySize(body), flags |-> {}]

\* in this part arg is a source: a modification time, a content and a name
InitDescriptor ==
    /\ InitServerIdle
    /\ arg \in [modTime : ModTimes, body : {"mail60", "hello"},
                remote : {PlainName, Name60}]
    /\ ret = [op |-> "none"]

\* a constructor returned out for the source arg; fetched is the
\* descriptor of the same message once appended and fetched again
Described(by, out) ==
    /\ ret' = [op |-> "descriptor", by |-> by, out |-> out,
               fetched |-> messageToDescriptor(<<>>, <<>>,
                                               Appended(arg.body, arg.modTime),
                                               TRUE).info]
    /\ UNCHANGED <<server, objs, res, arg>>

DescribeName == Described("nameToDescriptor", nameToDescriptor(<<>>, arg.remote))

DescribeMessage ==
    Described("messageToDescriptor",
              messageToDescriptor(<<>>, <<>>, Appended(arg.body, arg.modTime), TRUE))

DescribeObject ==
    Described("objectToDescriptor",
              objectToDescriptor(<<>>, Source(arg.remote, arg.modTime, arg.body,
                                             TRUE, TRUE)))

DescribeReader ==
    Described("readerToDescriptor",
              readerToDescriptor(<<>>, arg.remote, arg.modTime, arg.body, TRUE,
                                 ItoN(BodySize(arg.body)), {}))

NextDescriptor == DescribeName \/ DescribeMessage \/ DescribeObject \/ DescribeReader

SpecDescriptor == InitDescriptor /\ [][NextDescriptor]_vars

\* C32: the descriptor of every constructor holds a date in UTC without a
\* sub-second part, so a descriptor built from a source object or from a
\* reader is equal in (date, checksum, size) to the descriptor of the same
\* message fetched from the server.
C32_DateWholeSecondsUTC ==
    (ret.op = "descriptor" /\ ret.out.err = "")
    => /\ DOMAIN ret.out.info.date = {"sec", "nsec"}
       /\ ret.out.info.date.nsec = 0
       /\ ret.by \in {"objectToDescriptor", "readerToDescriptor"}
          /\ ret.out.info.name = PlainName
          => Equal(ret.out.info, ret.fetched)

\* ------------------------------------------------------------------
\* Remove among other connections
\* ------------------------------------------------------------------

\* the most messages of a mailbox in this part
MaxRemoveMsgs == 2

\* another connection sets the Deleted flag on a message and does not
\* expunge, as mail clients do when a message is moved to the trash
FlaggedElsewhere(mbox, k) ==
    /\ mbox \in DOMAIN server
    /\ k \in 1..Len(server[mbox])
    /\ DeletedFlag \notin server[mbox][k].flags
    /\ server' = ServerStore(server, mbox, k, {DeletedFlag}).srv
    /\ UNCHANGED <<objs, res, arg, ret>>

\* another connection appends a message
AppendedElsewhere(mbox, msg) ==
    /\ mbox \in DOMAIN server
    /\ Len(server[mbox]) < MaxRemoveMsgs
    /\ server' = ServerAppend(server, mbox, msg.flags, msg.date, msg.body,
                              msg.size).srv
    /\ UNCHANGED <<objs, res, arg, ret>>

InitRemove ==
    /\ server = [n \in {MailboxA, MailboxB} |->
                    IF n = MailboxA THEN <<Stored60, StoredHello>> ELSE <<>>]
    /\ objs = {}
    /\ res = [op |-> "none"]
    /\ arg = <<>>
    /\ ret = [op |-> "none"]

\* one Fs with the root "" lists the mailbox A and removes listed objects
\* while other connections flag, expunge and append in it
NextRemove ==
    \/ List(<<>>, MailboxA, 0)
    \/ \E o \in objs : Remove(o)
    \/ \E k \in 1..MaxRemoveMsgs : FlaggedElsewhere(MailboxA, k)
    \/ \E k \in 1..MaxRemoveMsgs : ExpungedElsewhere(MailboxA, k)
    \/ \E msg \in {StoredHello, StoredNote} : AppendedElsewhere(MailboxA, msg)
    \/ \E op \in {"List", "Remove"} : Unreachable(op)

SpecRemove == InitRemove /\ [][NextRemove]_vars

\* how often the message m occurs in msgs
Count(msgs, m) == Cardinality({k \in 1..Len(msgs) : msgs[k] = m})

\* the messages of before that are fewer in after
Expunged(before, after) ==
    {before[k] : k \in {j \in 1..Len(before) :
                          Count(before, before[j]) > Count(after, before[j])}}

\* the step is a Remove that returned success
RemoveSucceeds ==
    /\ res' # res
    /\ res'.op = "Remove"
    /\ res'.err = ""

\* C33: a successful Remove takes exactly one message out of the mailbox:
\* every other message, one that carried the Deleted flag before the call
\* included, is still there afterwards, and the other mailboxes are as
\* they were.
C33_RemoveExactlyOne ==
    [][RemoveSucceeds
       => \E k \in 1..Len(server[MailboxA]) :
              server' = [server EXCEPT ![MailboxA] = Without(@, k)]]_vars

\* the message m has the date, checksum and size of the descriptor info
SameTriple(m, info) ==
    /\ info.date = Time(ItoN(m.date), 0)
    /\ info.md5sum = MD5(m.body)
    /\ info.size = ItoN(m.size)

\* no message of the mailbox A carries the Deleted flag: the other
\* connections have appended and removed, and flagged nothing without
\* expunging it
NoneFlagged ==
    \A k \in 1..Len(server[MailboxA]) : DeletedFlag \notin server[MailboxA][k].flags

\* C34: whatever other connections appended and removed between the List
\* that returned o and Remove(o), a successful Remove(o) expunges no
\* message whose date, checksum or size differs from o's.
C34_RemoveOnlyEqual ==
    [][(RemoveSucceeds /\ NoneFlagged)
       => \A m \in Expunged(server[MailboxA], server'[MailboxA]) :
              SameTriple(m, res'.o.info)]_vars

\* ------------------------------------------------------------------
\* Mkdir on independent connections
\* ------------------------------------------------------------------

\* the callers of Mkdir, each with a mail client of its own
Callers == {1, 2}

\* the directories made: one that exists and two that do not
RaceDirs == {MailboxB, MailboxC, MailboxAB}

\* in this part arg holds, for every caller, how far its Mkdir has come
InitMkdirRace ==
    /\ server = [n \in {MailboxA, MailboxB} |-> <<>>]
    /\ objs = {}
    /\ res = [op |-> "none"]
    /\ arg = [p \in Callers |-> [pc |-> "idle"]]
    /\ ret = [op |-> "none"]

\* Mkdir(dir) up to the return of newMailClient: the login has read the
\* folder list of this moment into the client
MkdirConnects(p, dir) ==
    /\ arg[p].pc = "idle"
    /\ arg' = [arg EXCEPT ![p] = [pc |-> "connected", dir |-> dir,
                                  client |-> newMailClient(server)]]
    /\ UNCHANGED <<server, objs, res, ret>>

\* Mkdir(dir) whose newMailClient fails
MkdirUnreachable(p, dir) ==
    /\ arg[p].pc = "idle"
    /\ arg' = [arg EXCEPT ![p] = [pc |-> "returned", dir |-> dir,
                                  err |-> ErrorDial]]
    /\ UNCHANGED <<server, objs, res, ret>>

\* the rest of Mkdir, created being the outcome of CREATE
MkdirReturns(p, created) ==
    /\ arg' = [arg EXCEPT ![p] = [pc |-> "returned", dir |-> arg[p].dir,
                                  err |-> IF created.ok THEN ""
                                          ELSE "failed to create mailbox"]]
    /\ server' = created.srv
    /\ UNCHANGED <<objs, res, ret>>

\* the rest of Mkdir: HasMailbox asks the client's folder list, and
\* CreateMailbox sends CREATE when the list does not hold the mailbox
MkdirFinishes(p) ==
    /\ arg[p].pc = "connected"
    /\ MkdirReturns(p, IF HasMailbox(arg[p].client, arg[p].dir)
                       THEN [ok |-> TRUE, srv |-> server]
                       ELSE ServerCreate(server,
                                         dirToMailbox(arg[p].client, arg[p].dir)))

NextMkdirRace ==
    \/ \E p \in Callers, dir \in RaceDirs : MkdirConnects(p, dir)
    \/ \E p \in Callers, dir \in RaceDirs : MkdirUnreachable(p, dir)
    \/ \E p \in Callers : MkdirFinishes(p)

SpecMkdirRace == InitMkdirRace /\ [][NextMkdirRace]_vars

\* C35: a Mkdir that reached the server returns success whenever the
\* mailbox exists at its return, also when another connection made the
\* same absent mailbox in between: of two such calls both return success.
C35_ConcurrentMkdirSucceeds ==
    \A p \in Callers :
        (/\ arg[p].pc = "returned"
         /\ arg[p].err # ErrorDial
         /\ dirToMailbox(newMailClient(server), arg[p].dir) \in DOMAIN server)
        => arg[p].err = ""

\* ------------------------------------------------------------------
\* Rmdir while another connection puts
\* ------------------------------------------------------------------

\* the mailboxes Rmdir and Put are called for: one that exists and one that
\* does not
RmdirRaceDirs == {MailboxA, MailboxC}

\* in this part arg holds, for every caller, the operation it called
\* (Rmdir or Put of one message) and how far it has come
InitRmdirRace ==
    /\ server = [n \in {MailboxA, MailboxB} |-> <<>>]
    /\ objs = {}
    /\ res = [op |-> "none"]
    /\ arg = [p \in Callers |-> [pc |-> "idle"]]
    /\ ret = [op |-> "none"]

\* the operation of caller p has returned err
RaceReturned(p, err) ==
    arg' = [arg EXCEPT ![p] = [pc |-> "returned", op |-> arg[p].op,
                               dir |-> arg[p].dir, err |-> err]]

\* the operation of caller p has come to the step pc
RaceAt(p, pc) == arg' = [arg EXCEPT ![p].pc = pc]

\* Rmdir or Put up to the return of newMailClient, which reads the folder
\* list of this moment, or fails
RaceConnects(p, in) ==
    /\ arg[p].pc = "idle"
    /\ arg' = [arg EXCEPT ![p] =
                  IF in.ok THEN [pc |-> "connected", op |-> in.op, dir |-> in.dir,
                                 client |-> newMailClient(server)]
                  ELSE [pc |-> "returned", op |-> in.op, dir |-> in.dir,
                        err |-> ErrorDial]]
    /\ UNCHANGED <<server, objs, res, ret>>

\* Rmdir from HasMailbox to the message count of DeleteMailbox: SELECT
\* tells how many messages the mailbox holds now
RmdirSelects(p) ==
    /\ arg[p].pc = "connected"
    /\ arg[p].op = "Rmdir"
    /\ IF ~HasMailbox(arg[p].client, arg[p].dir)
       THEN RaceReturned(p, "")
       ELSE IF ~Select(server, dirToMailbox(arg[p].client, arg[p].dir))
       THEN RaceReturned(p, ErrorDirNotFound)
       ELSE IF Len(server[dirToMailbox(arg[p].client, arg[p].dir)]) # 0
       THEN RaceReturned(p, "mailbox not empty")
       ELSE RaceAt(p, "selected")
    /\ UNCHANGED <<server, objs, res, ret>>

\* DeleteMailbox from DELETE on
RmdirDeletes(p) ==
    /\ arg[p].pc = "selected"
    /\ server' = ServerDelete(server, dirToMailbox(arg[p].client, arg[p].dir)).srv
    /\ RaceReturned(p, IF ServerDelete(server,
                                       dirToMailbox(arg[p].client, arg[p].dir)).ok
                       THEN "" ELSE "failed to delete mailbox")
    /\ UNCHANGED <<objs, res, ret>>

\* Put from HasMailbox to the return of CreateMailbox
PutCreates(p) ==
    /\ arg[p].pc = "connected"
    /\ arg[p].op = "Put"
    /\ IF HasMailbox(arg[p].client, arg[p].dir)
       THEN /\ RaceAt(p, "created")
            /\ UNCHANGED server
       ELSE /\ server' = ServerCreate(server,
                                      dirToMailbox(arg[p].client, arg[p].dir)).srv
            /\ IF ServerCreate(server, dirToMailbox(arg[p].client, arg[p].dir)).ok
               THEN RaceAt(p, "created")
               ELSE RaceReturned(p, "failed to create mailbox")
    /\ UNCHANGED <<objs, res, ret>>

\* Put from Save on: APPEND of the message
PutSaves(p) ==
    /\ arg[p].pc = "created"
    /\ server' = ServerAppend(server, dirToMailbox(arg[p].client, arg[p].dir),
                              {}, Stored60.date, Stored60.body, Stored60.size).srv
    /\ RaceReturned(p, IF ServerAppend(server,
                                       dirToMailbox(arg[p].client, arg[p].dir),
                                       {}, Stored60.date, Stored60.body,
                                       Stored60.size).ok
                       THEN "" ELSE "failed to save message")
    /\ UNCHANGED <<objs, res, ret>>

NextRmdirRace ==
    \/ \E p \in Callers,
          in \in [op : {"Rmdir", "Put"}, dir : RmdirRaceDirs, ok : BOOLEAN] :
          RaceConnects(p, in)
    \/ \E p \in Callers : RmdirSelects(p)
    \/ \E p \in Callers : RmdirDeletes(p)
    \/ \E p \in Callers : PutCreates(p)
    \/ \E p \in Callers : PutSaves(p)

SpecRmdirRace == InitRmdirRace /\ [][NextRmdirRace]_vars

\* C36: no step deletes a mailbox that holds a message at that moment,
\* also when a Put on another connection appends to the mailbox between
\* the message count of Rmdir and its DELETE.
C36_RmdirDeletesOnlyEmpty ==
    [][\A n \in DOMAIN server \ DOMAIN server' : server[n] = <<>>]_vars

\* ------------------------------------------------------------------
\* What the reading operations leave on the server
\* ------------------------------------------------------------------

\* FETCH item of the messages ids in the selected mailbox: a BODY[]
\* section sets the Seen flag of every message it returns unless the
\* mailbox is selected read-only; BODY.PEEK[] and the other items the code
\* asks for set nothing
ServerFetch(srv, mbox, ids, item, readOnly) ==
    IF item = "BODY[]" /\ ~readOnly
    THEN [srv EXCEPT ![mbox] =
             [k \in 1..Len(@) |->
                 IF k \in ids THEN [@[k] EXCEPT !.flags = @ \cup {SeenFlag}]
                 ELSE @[k]]]
    ELSE srv

\* mailclient.Fetch with a fault: the mailbox is selected for writing and
\* the body is asked for with BODY[]
FetchOnMarking(srv, mbox, ids) ==
    IF ~Select(srv, mbox) THEN srv
    ELSE ServerFetch(srv, mbox, ids \cap 1..Len(srv[mbox]), "BODY[]", FALSE)

\* what mailclient.Fetch leaves on the server: the mailbox is selected
\* read-only and every caller asks for the body with BODY.PEEK[]
FetchOn(srv, mbox, ids) ==
    IF ~Select(srv, mbox) THEN srv
    ELSE ServerFetch(srv, mbox, ids \cap 1..Len(srv[mbox]), "BODY.PEEK[]", TRUE)

\* what fetchEntries leaves on the server, from the check of parent and
\* file on: STATUS and SEARCH change nothing, the messages fetched are
\* all of the mailbox or the ones the search found
fetchEffectParsed(srv, client, parent, file) ==
    IF parent = <<>> THEN srv
    ELSE IF ~HasMailbox(client, parent) THEN srv
    ELSE IF file = <<>>
    THEN FetchOn(srv, dirToMailbox(client, parent),
                 1..Len(srv[dirToMailbox(client, parent)]))
    ELSE IF searchCriteriaFromName(parent, file).err # "" THEN srv
    ELSE FetchOn(srv, dirToMailbox(client, parent),
                 SearchIn(srv, dirToMailbox(client, parent),
                          searchCriteriaFromName(parent, file).criteria).ids)

fetchEffectGroups(srv, client, groups) ==
    fetchEffectParsed(srv, client,
                      IF groups.file = <<>> THEN groups.dir ELSE groups.parent,
                      groups.file)

\* what fetchEntries leaves on the server
fetchEffect(srv, root, dir) ==
    fetchEffectGroups(srv, newMailClient(srv), remoteRegex(PathJoin(root, dir)))

\* what findObject leaves on the server, mbox being the server's name of
\* info.parent: the messages the search found are fetched
findEffectIn(srv, info, mbox) ==
    IF ~Select(srv, mbox) THEN srv
    ELSE FetchOn(srv, mbox, SearchIn(srv, mbox, searchCriteriaFromDescriptor(info)).ids)

findEffect(srv, info) ==
    IF info.err # "" THEN srv
    ELSE findEffectIn(srv, info.info, dirToMailbox(newMailClient(srv), info.info.parent))

\* what Object.Open leaves on the server
openEffect(srv, o) ==
    FetchOn(srv, dirToMailbox(newMailClient(srv), OpenMailbox(o)), {o.seqNum})

\* a reading operation of the caller returned r and left srv on the
\* server; in this part ret tells who acted last
Reads(r, srv) ==
    /\ res' = r
    /\ server' = srv
    /\ ret' = [by |-> "caller"]
    /\ UNCHANGED arg

\* Fs.List(dir)
ListReads(root, dir) ==
    /\ Reads([op |-> "List", root |-> root, dir |-> dir, noBody |-> 0]
             @@ fetchEntries(server, root, dir, 0),
             fetchEffect(server, root, dir))
    /\ objs' = IF fetchEntries(server, root, dir, 0).err = ""
               THEN {e \in fetchEntries(server, root, dir, 0).entries :
                       e.kind = "object"}
               ELSE {}

\* Fs.NewObject(remote) without a source object in the context
NewObjectReads(root, remote) ==
    /\ Reads([op |-> "NewObject", root |-> root, remote |-> remote]
             @@ NewObjectOf(root, nameToDescriptor(root, remote)),
             findEffect(server, nameToDescriptor(root, remote)))
    /\ UNCHANGED objs

\* Object.Open
OpenReads(o) ==
    /\ Reads([op |-> "Open", o |-> o] @@ Open(server, o), openEffect(server, o))
    /\ UNCHANGED objs

\* Object.Hash(t): Open is called when the checksum is not in o.hashes
HashReads(o, t) ==
    /\ Reads([op |-> "Hash", o |-> o, t |-> t] @@ HashOf(o, t, Open(server, o)),
             IF t = "MD5" THEN server ELSE openEffect(server, o))
    /\ UNCHANGED objs

\* another connection sets or clears the Seen flag of a message
SeenElsewhere(mbox, k) ==
    /\ mbox \in DOMAIN server
    /\ k \in 1..Len(server[mbox])
    /\ server' = [server EXCEPT ![mbox][k].flags =
                     IF SeenFlag \in @ THEN @ \ {SeenFlag} ELSE @ \cup {SeenFlag}]
    /\ ret' = [by |-> "other"]
    /\ UNCHANGED <<objs, res, arg>>

NextRead ==
    \/ \E root \in Roots, dir \in {<<>>, MailboxA, Name60} : ListReads(root, dir)
    \/ \E o \in objs : NewObjectReads(o.root, Remote(o))
    \/ \E o \in objs : OpenReads(o)
    \/ \E o \in objs, t \in Hashes : HashReads(o, t)
    \/ \E k \in 1..Len(server[MailboxA]) : SeenElsewhere(MailboxA, k)

SpecRead == InitStale /\ [][NextRead]_vars

\* C37: List, NewObject, Open and Hash leave the server as it was: the
\* same mailboxes, the same messages in each and the same flags on every
\* message, Seen included, after the call as before it.
C37_ReadsLeaveServer ==
    [][ret'.by = "caller" => server' = server]_vars

\* C37 witness: Open returned the body of a message that still does not
\* carry the Seen flag
C37_Witness ==
    /\ ret = [by |-> "caller"]
    /\ res.op = "Open"
    /\ res.err = ""
    /\ res.o.seqNum <= Len(server[MailboxA])
    /\ SeenFlag \notin server[MailboxA][res.o.seqNum].flags

\* ------------------------------------------------------------------
\* The TLS configuration of the transport
\* ------------------------------------------------------------------

\* the tls.Config login builds from the Fs: ServerName is the host and
\* InsecureSkipVerify the toggle no_check_certificate
tlsConfigOf(f) ==
    [ServerName |-> f.host, InsecureSkipVerify |-> f.skipVerify]

\* no tls.Config (nil)
NoConfig == [nil |-> TRUE]

\* the configuration a TLS handshake with the host of address runs under
\* when it is given config: a nil configuration is an empty one, and an
\* empty ServerName is filled in from the address
HandshakeConfig(host, config) ==
    IF config = NoConfig
    THEN [ServerName |-> host, InsecureSkipVerify |-> FALSE]
    ELSE IF config.ServerName = ""
    THEN [ServerName |-> host, InsecureSkipVerify |-> config.InsecureSkipVerify]
    ELSE config

\* the transport login sets up: StartTLS(tlsConfig) after a plain Dial,
\* DialTLS(address, nil), or a plain Dial alone
transportOf(f) ==
    CASE f.security = "starttls" ->
            [dial |-> "Dial", tls |-> HandshakeConfig(f.host, tlsConfigOf(f))]
      [] f.security = "tls" ->
            [dial |-> "DialTLS", tls |-> HandshakeConfig(f.host, NoConfig)]
      [] OTHER -> [dial |-> "Dial", tls |-> NoConfig]

\* the handshake under the configuration tls with a server that presents
\* the certificate cert succeeds when verification is skipped or the
\* certificate is trusted and names the server
Handshake(tls, cert) ==
    \/ tls.InsecureSkipVerify
    \/ cert.trusted /\ cert.name = tls.ServerName

\* login as far as the transport goes, t being the transport
loginOver(f, cert, t) ==
    IF t.tls # NoConfig /\ ~Handshake(t.tls, cert)
    THEN [op |-> "login", transport |-> t,
          err |-> IF t.dial = "DialTLS" THEN ErrorDial ELSE "handshake failed"]
    ELSE [op |-> "login", transport |-> t,
          err |-> IF f.passOk THEN "" ELSE "failed to login"]

Hosts == {"imap.example", "mail.example"}

\* the certificates a server presents: signed by a trusted authority or
\* not, and naming one of the hosts
Certificates == [trusted : BOOLEAN, name : Hosts]

\* in this part arg is the Fs (security, host, no_check_certificate,
\* whether the password is right) and the certificate of its server
InitTransport ==
    /\ InitServerIdle
    /\ arg \in [f : [security : Securities, host : Hosts, skipVerify : BOOLEAN,
                     passOk : BOOLEAN],
                cert : Certificates]
    /\ ret = [op |-> "none"]

\* mailclient.login
CallLogin ==
    /\ ret.op = "none"
    /\ ret' = loginOver(arg.f, arg.cert, transportOf(arg.f))
    /\ UNCHANGED <<server, objs, res, arg>>

NextTransport == CallLogin

SpecTransport == InitTransport /\ [][NextTransport]_vars

\* C38: in both secured modes the handshake runs under the configuration
\* of the Fs, the host as server name and the certificate check skipped
\* when the toggle says so: the dial of security = tls uses the
\* configuration that the upgrade of security = starttls uses.
C38_SameTLSConfiguration ==
    (ret.op = "login" /\ arg.f.security \in {"tls", "starttls"})
    => ret.transport.tls = tlsConfigOf(arg.f)

====
